---- MODULE Spec2Model ----
(***************************************************************************)
(* Verification model of the aiva_advanced python-service.                 *)
(*                                                                         *)
(* The components are modelled each with its own specification:            *)
(*   Spec        the background ingestion runs of one document             *)
(*               (DocumentJobProcessor.process_document_background)        *)
(*   SpecStore   VectorStore.store_document / delete_document over the     *)
(*               catalog (MySQL) and the vector keys (Redis)               *)
(*   SpecCache   VectorStore.search with the SemanticCache, run by         *)
(*               several uvicorn worker processes                          *)
(*   SpecSearch  the result pipeline of EnhancedSearchService.search       *)
(*   SpecSync    ScrapeSyncService.sync_source, one loop per worker        *)
(*   SpecQueue   the image processing queue (image_queue.py)               *)
(*   SpecCrawl   WebScraper.scrape_url over a small site                   *)
(*   SpecIndex   SemanticCache._update_cache_index of two workers          *)
(*   SpecChunker TextChunker.chunk_text                                    *)
(*   SpecSchedule, SpecScheduleFair                                        *)
(*               ScrapeSyncService.run_sync_loop and the lifespan shutdown *)
(*   SpecQueueFair                                                         *)
(*               SpecQueue with the event loop running every ready task    *)
(*   SpecEmbedder the embeddings of the chunks of one document             *)
(*   SpecExpiry  the cached text search as Redis time passes               *)
(* Every specification leaves the variables of the others unchanged.       *)
(***************************************************************************)
EXTENDS Integers, Sequences, FiniteSets, TLC

VARIABLES
    \* ---- job run (document_job_processor.py) ----
    job,              \* the Redis hash doc_job:{document_id}
    pc,               \* per run: position in process_document_background
    doc_status,       \* yovo_tbl_aiva_documents.status of the document, "absent" if no row
    doc_error_len,    \* length of yovo_tbl_aiva_documents.error_message
    temp_dir,         \* TRUE iff temp_documents/{document_id} exists
    exc_len,          \* per run: len(str(e)) of the exception caught at line 467
    raised,           \* per run: TRUE iff its try body raised
    total_chunks,     \* per run: local total_chunks (line 361)
    batch_i,          \* per run: loop variable i of _generate_embeddings_batched
    n_embeddings,     \* per run: len(all_embeddings)
    \* ---- vector store (vector_store.py) ----
    documents,        \* ids with a row in yovo_tbl_aiva_documents
    chunk_rows,       \* committed rows of yovo_tbl_aiva_document_chunks
    vectors,          \* Redis keys vector:{kb_id}:{chunk_id}, with their document_id
    inflight,         \* per document: the chunks and embeddings of its running job
    next_chunk_id,    \* chunk ids are fresh uuid4 values: a counter
    deleted_in_flight,\* per document: its row was removed while its job was running
    last_op,          \* the operation that returned last
    \* ---- text search with the semantic cache (vector_store.py, semantic_cache.py) ----
    kb_vectors,       \* the document keys vector:{kb_id}:* the search scans, in KEYS order
    cache,            \* Redis semantic_cache:{kb_id}:{md5(query:search_type)} -> entry
    cache_index,      \* Redis cache_index:{kb_id}: the list of entry keys
    hits_served,      \* per entry key: hits answered from the entry since cache_result made it
    wpc,              \* per worker process: where its search request is
    local,            \* per worker process: request, best_key, best_match
    response,         \* per worker process: the last response of search
    searches,         \* requests received so far
    \* ---- EnhancedSearchService.search (enhanced_search.py) ----
    search_request,   \* the request being answered: top_k, feature flags, vector search output
    final_results,    \* text_results of the response
    retrieval,        \* the query as rewritten, the expanded search terms and the
                      \* calls of vector_store.search made for the request
    \* ---- scrape sources and their sync loops (scrape_sync_service.py) ----
    scrape_sources,   \* rows of yovo_tbl_aiva_scrape_sources
    remote,           \* per source: the content of its page today, 0 if it is gone
    sync_documents,   \* rows of yovo_tbl_aiva_documents made from scraped pages,
                      \* each with the content its chunks and vectors hold
    next_document,    \* document ids are fresh uuid4 values: an index into DocumentIds
    loop_pc,          \* per worker process: where its run_sync_loop is
    loop_sources,     \* per worker process: sources of this cycle still to sync
    sync_result,      \* what the sync_source that ended last returned or raised
    \* ---- image processing queue (image_queue.py) ----
    image_queues,     \* the ImageProcessingQueue objects made so far, the last one
                      \* being _global_queue
    image_tasks,      \* per call of ImageProcessingQueue.process: position, queue,
                      \* whether _cleanup_memory ran
    \* ---- WebScraper (web_scraper.py) ----
    scraper,          \* the module flags PLAYWRIGHT_AVAILABLE and FIRECRAWL_AVAILABLE,
                      \* _playwright_domains, _firecrawl_domains, crawls made so far
    site_robots,      \* the Disallow paths of the robots.txt the site serves
    crawl,            \* the locals of the scrape_url call in progress
    requests,         \* page requests of the crawl in progress, in order
    \* ---- the cache index of one knowledge base when it is full (semantic_cache.py) ----
    kb_index,         \* Redis cache_index:{kb_id}: the entries, oldest first, each
                      \* the serial number of the cache write that made it
    index_writer,     \* per worker process: where its _update_cache_index is, the
                      \* list it read
    index_writes,     \* cache writes begun so far
    \* ---- TextChunker (utils/chunking.py) ----
    chunker,          \* the last call of chunk_text: the text and the chunks returned
    \* ---- the scheduler of ScrapeSyncService in one worker process ----
    source_rows,      \* yovo_tbl_aiva_scrape_sources: the row of every source
    failing_sites,    \* the sources whose site cannot be scraped
    clock,            \* NOW(), in sync intervals
    scheduler,        \* the run_sync_loop task: position, _running, the rows of
                      \* the cycle, the sources it has called sync_source for
    \* ---- the embeddings of one document (_generate_embeddings_batched) ----
    embedder,         \* the chunks of the document, the embeddings returned for
                      \* them, the vectors store_document wrote
    \* ---- the cached search over time (vector_store.py, semantic_cache.py) ----
    kb_keys,          \* chunk ids with a key vector:{kb_id}:{chunk_id}
    cached_entries,   \* semantic_cache:{kb_id}:* by query, each with its expiry
    entry_index,      \* cache_index:{kb_id}: its keys and its expiry
    redis_time,       \* seconds since the service started
    answer,           \* the search response returned last
    deleted_docs      \* documents for which delete_document has returned

jobVars == <<job, pc, doc_status, doc_error_len, temp_dir, exc_len, raised,
             total_chunks, batch_i, n_embeddings>>

storeVars == <<documents, chunk_rows, vectors, inflight, next_chunk_id,
               deleted_in_flight, last_op>>

cacheVars == <<kb_vectors, cache, cache_index, hits_served, wpc, local, response,
               searches>>

searchVars == <<search_request, final_results, retrieval>>

syncVars == <<scrape_sources, remote, sync_documents, next_document, loop_pc,
              loop_sources, sync_result>>

queueVars == <<image_queues, image_tasks>>

crawlVars == <<scraper, site_robots, crawl, requests>>

indexVars == <<kb_index, index_writer, index_writes>>

chunkerVars == <<chunker>>

scheduleVars == <<source_rows, failing_sites, clock, scheduler>>

embedderVars == <<embedder>>

expiryVars == <<kb_keys, cached_entries, entry_index, redis_time, answer, deleted_docs>>

vars == <<jobVars, storeVars, cacheVars, searchVars, syncVars, queueVars, crawlVars, indexVars, chunkerVars, scheduleVars, embedderVars, expiryVars>>

notJobVars == <<storeVars, cacheVars, searchVars, syncVars, queueVars, crawlVars, indexVars, chunkerVars, scheduleVars, embedderVars, expiryVars>>
notStoreVars == <<jobVars, cacheVars, searchVars, syncVars, queueVars, crawlVars, indexVars, chunkerVars, scheduleVars, embedderVars, expiryVars>>
notCacheVars == <<jobVars, storeVars, searchVars, syncVars, queueVars, crawlVars, indexVars, chunkerVars, scheduleVars, embedderVars, expiryVars>>
notSearchVars == <<jobVars, storeVars, cacheVars, syncVars, queueVars, crawlVars, indexVars, chunkerVars, scheduleVars, embedderVars, expiryVars>>
notSyncVars == <<jobVars, storeVars, cacheVars, searchVars, queueVars, crawlVars, indexVars, chunkerVars, scheduleVars, embedderVars, expiryVars>>
notQueueVars == <<jobVars, storeVars, cacheVars, searchVars, syncVars, crawlVars, indexVars, chunkerVars, scheduleVars, embedderVars, expiryVars>>
notCrawlVars == <<jobVars, storeVars, cacheVars, searchVars, syncVars, queueVars, indexVars, chunkerVars, scheduleVars, embedderVars, expiryVars>>
notIndexVars == <<jobVars, storeVars, cacheVars, searchVars, syncVars, queueVars, crawlVars, chunkerVars, scheduleVars, embedderVars, expiryVars>>
notChunkerVars == <<jobVars, storeVars, cacheVars, searchVars, syncVars, queueVars, crawlVars, indexVars, scheduleVars, embedderVars, expiryVars>>
notScheduleVars == <<jobVars, storeVars, cacheVars, searchVars, syncVars, queueVars, crawlVars, indexVars, chunkerVars, embedderVars, expiryVars>>
notEmbedderVars == <<jobVars, storeVars, cacheVars, searchVars, syncVars, queueVars, crawlVars, indexVars, chunkerVars, scheduleVars, expiryVars>>
notExpiryVars == <<jobVars, storeVars, cacheVars, searchVars, syncVars, queueVars, crawlVars, indexVars, chunkerVars, scheduleVars, embedderVars>>

-----------------------------------------------------------------------------
(* Bounds of the model *)

\* largest chunk count a run produces: more than two batches of batch_size
MaxChunks == 250

\* chunk ids handed out in one behaviour
MaxChunkIds == 4
\* chunks of one job in the vector store model
MaxJobChunks == 2

\* documents made from scraped pages in one behaviour
MaxSyncDocuments == 2
\* versions a remote page goes through
MaxVersion == 2

\* ImageProcessingQueue objects made in one behaviour
MaxQueues == 3
\* largest max_concurrent set (the route allows 1..10)
MaxConcurrent == 2

\* scrape_url calls in one behaviour
MaxCrawls == 2
\* max_pages passed to scrape_url (the request model defaults to 20)
MaxPages == 3

\* cache writes made by the worker processes on the full index
MaxIndexWrites == 3

\* paragraphs of a text given to the chunker
MaxParagraphs == 2

\* chunks of the document whose embeddings are followed
MaxBatchChunks == 3

\* steps of the clock of the cached search
MaxTicks == 3

\* scrape sources in the table: one more than a cycle takes
MaxSources == 11
\* sync intervals that pass in one behaviour
MaxClock == 1

\* search requests in one behaviour
MaxSearches == 4
\* largest top_k requested (the request model allows 1..20)
MaxTopK == 3

(* Program constants *)

\* batch_size=100 passed to _generate_embeddings_batched
batch_size == 100
\* error_message[:1000] in _update_document_failed
ErrorMessageLimit == 1000
\* SEMANTIC_CACHE_SIMILARITY_THRESHOLD = 0.95, times 100
similarity_threshold == 95
\* MIN_RELEVANCE_SCORE = 0.5, times 1000
min_relevance == 500
\* BM25_WEIGHT = 0.3, times 10
bm25_weight == 3
\* MMR_LAMBDA = 0.7, times 10
mmr_lambda == 7

\* cache_index[-1000:] in _update_cache_index
IndexLimit == 1000

\* get_sources_due_for_sync: LIMIT 10
SyncLimit == 10

\* SemanticCache.ttl: SEMANTIC_CACHE_TTL, in seconds
ttl == 3600

\* TextChunker.__init__(chunk_size=500, chunk_overlap=50)
chunk_size == 500
chunk_overlap == 50
\* _split_by_paragraphs keeps a paragraph of more than 5 words
MinWords == 5
\* paragraph lengths in words: below and above MinWords, above chunk_size
ParagraphLens == {3, 6, chunk_size + 60}

\* IMAGE_PROCESSING_CONCURRENCY, default '1'
IMAGE_PROCESSING_CONCURRENCY == 1

\* max_depth: int = 2 of scrape_url
max_depth == 2
\* for attempt in range(4) of _scrape_single_page
MaxAttempts == 4
\* sitemap_urls[: min(10, self.max_pages)] of the sitemap fallback
SitemapBatch == 10
\* crawl_delay = max(robots.get("crawl_delay", 3.0), 3.0), in milliseconds,
\* for a robots.txt without Crawl-delay
crawl_delay == 3000

\* None for an optional argument of update_job_status
None == -1

\* the elements of a sequence
SeqRange(s) == {s[i] : i \in 1..Len(s)}

Min(a, b) == IF a <= b THEN a ELSE b
Max(a, b) == IF a >= b THEN a ELSE b

\* chunk counts a run may produce: none, one, more than two batches
ChunkCounts == {0, 1, MaxChunks}
\* lengths of str(e): short, exactly the limit, beyond the limit
ErrLens == {12, ErrorMessageLimit, ErrorMessageLimit + 500}

-----------------------------------------------------------------------------
(* DocumentJobProcessor: the background runs of one document_id *)

\* the background tasks started for the document in one behaviour; neither
\* upload_document nor reprocess_document looks for a run in flight
Runs == {1, 2}

STATUS_QUEUED == "queued"
STATUS_PROCESSING == "processing"
STATUS_CHUNKING == "chunking"
STATUS_EMBEDDING == "embedding"
STATUS_STORING == "storing"
STATUS_COMPLETED == "completed"
STATUS_FAILED == "failed"

NoJob == [status |-> "none", progress |-> 0, total_chunks |-> 0,
          processed_chunks |-> 0, error_len |-> 0]

\* create_job: hset of a fresh record
create_job == [status |-> STATUS_QUEUED, progress |-> 0, total_chunks |-> 0,
               processed_chunks |-> 0, error_len |-> 0]

\* update_job_status: hset of the fields that are not None
update_job_status(j, status, progress, total, processed, error_len) ==
    [j EXCEPT !.status = status,
              !.progress = IF progress = None THEN @ ELSE progress,
              !.total_chunks = IF total = None THEN @ ELSE total,
              !.processed_chunks = IF processed = None THEN @ ELSE processed,
              !.error_len = IF error_len = None THEN @ ELSE error_len]

\* progress = 45 + int((processed_so_far / total_chunks) * 35)   (line 525)
BatchProgress(processed_so_far, total) ==
    45 + (processed_so_far * 35) \div total

\* error_message[:1000]
Truncate(len) == Min(len, ErrorMessageLimit)

JobInit ==
    /\ job = NoJob
    /\ pc = [r \in Runs |-> "idle"]
    /\ doc_status \in {"absent", "processing"}
    /\ doc_error_len = 0
    /\ temp_dir = FALSE
    /\ exc_len = [r \in Runs |-> 0]
    /\ raised = [r \in Runs |-> FALSE]
    /\ total_chunks = [r \in Runs |-> 0]
    /\ batch_i = [r \in Runs |-> 0]
    /\ n_embeddings = [r \in Runs |-> 0]

\* background tasks are numbered in the order in which they are added
NextTask(r) == pc[r] = "idle" /\ \A o \in Runs : o < r => pc[o] # "idle"

JobLocals == <<exc_len, raised, total_chunks, batch_i, n_embeddings>>
Catalog == <<doc_status, doc_error_len>>

\* position of run r moves to `to`
Goto(r, to) == pc' = [pc EXCEPT ![r] = to]

\* POST /documents/upload: create_job, save_temp_file, add_task
upload_document(r) ==
    /\ NextTask(r)
    /\ job' = create_job
    /\ temp_dir' = TRUE
    /\ Goto(r, "start")
    /\ UNCHANGED <<Catalog, JobLocals>>
    /\ UNCHANGED notJobVars

\* POST /documents/{id}/reprocess: 404 without a Document row; create_job,
\* add_task; the bytes come from storage_url, no temp file is written
reprocess_document(r) ==
    /\ NextTask(r)
    /\ doc_status # "absent"
    /\ job' = create_job
    /\ Goto(r, "start")
    /\ UNCHANGED <<Catalog, temp_dir, JobLocals>>
    /\ UNCHANGED notJobVars

\* one await self.update_job_status(...) of the try body of run r, from
\* position `at` to position `to`
StatusStep(r, at, to, status, progress, total, processed) ==
    /\ pc[r] = at
    /\ job' = update_job_status(job, status, progress, total, processed, None)
    /\ Goto(r, to)
    /\ UNCHANGED <<Catalog, temp_dir, exc_len, raised>>

\* total_chunks, batch_i and n_embeddings of run r are not read again
DropChunkLocals(r) ==
    /\ total_chunks' = [total_chunks EXCEPT ![r] = 0]
    /\ batch_i' = [batch_i EXCEPT ![r] = 0]
    /\ n_embeddings' = [n_embeddings EXCEPT ![r] = 0]

ChunkLocals == <<total_chunks, batch_i, n_embeddings>>

\* lines 266-271
SetProcessing(r) ==
    /\ StatusStep(r, "start", "extracting", STATUS_PROCESSING, 5, None, None)
    /\ UNCHANGED ChunkLocals
    /\ UNCHANGED notJobVars

\* lines 280-285
SetExtracting(r) ==
    /\ StatusStep(r, "extracting", "extract", STATUS_PROCESSING, 10, None, None)
    /\ UNCHANGED ChunkLocals
    /\ UNCHANGED notJobVars

\* lines 287-301: doc_processor._extract_content returns, with or without
\* table_processing_stats
ExtractContent(r) ==
    /\ pc[r] = "extract"
    /\ \E table_processing_stats \in BOOLEAN :
         Goto(r, IF table_processing_stats THEN "tables" ELSE "extracted")
    /\ UNCHANGED <<job, Catalog, temp_dir, JobLocals>>
    /\ UNCHANGED notJobVars

\* lines 303-309
SetTablesProcessed(r) ==
    /\ StatusStep(r, "tables", "extracted", STATUS_PROCESSING, 20, None, None)
    /\ UNCHANGED ChunkLocals
    /\ UNCHANGED notJobVars

\* lines 311-316
SetExtracted(r) ==
    /\ StatusStep(r, "extracted", "chunking", STATUS_PROCESSING, 20, None, None)
    /\ UNCHANGED ChunkLocals
    /\ UNCHANGED notJobVars

\* lines 319-324
SetChunking(r) ==
    /\ StatusStep(r, "chunking", "chunk", STATUS_CHUNKING, 25, None, None)
    /\ UNCHANGED ChunkLocals
    /\ UNCHANGED notJobVars

\* lines 326-361: text_processor.process_text returns, table chunks are appended
ProcessText(r) ==
    /\ pc[r] = "chunk"
    /\ \E n \in ChunkCounts : total_chunks' = [total_chunks EXCEPT ![r] = n]
    /\ Goto(r, "chunked")
    /\ UNCHANGED <<job, Catalog, temp_dir, exc_len, raised, batch_i, n_embeddings>>
    /\ UNCHANGED notJobVars

\* lines 363-369
SetChunked(r) ==
    /\ StatusStep(r, "chunked", "embedding", STATUS_CHUNKING, 40, total_chunks[r], None)
    /\ UNCHANGED ChunkLocals
    /\ UNCHANGED notJobVars

\* lines 374-379
SetEmbedding(r) ==
    /\ StatusStep(r, "embedding", "batches", STATUS_EMBEDDING, 45, None, None)
    /\ UNCHANGED ChunkLocals
    /\ UNCHANGED notJobVars

\* len(batch) for batch = chunks[i:i + batch_size]
BatchLen(r) == Min(batch_size, total_chunks[r] - batch_i[r])

\* lines 502-534: one iteration of the batch loop whose provider call succeeds
EmbedBatchOk(r) ==
    /\ pc[r] = "batches"
    /\ batch_i[r] < total_chunks[r]
    /\ n_embeddings' = [n_embeddings EXCEPT ![r] = @ + BatchLen(r)]
    /\ job' = update_job_status(job, STATUS_EMBEDDING,
                                BatchProgress(batch_i[r] + BatchLen(r), total_chunks[r]),
                                None, batch_i[r] + BatchLen(r), None)
    /\ batch_i' = [batch_i EXCEPT ![r] = @ + batch_size]
    /\ UNCHANGED <<pc, Catalog, temp_dir, exc_len, raised, total_chunks>>
    /\ UNCHANGED notJobVars

\* lines 536-549: the batch call raises; per-chunk fallback, `got` chunks of
\* the batch obtain an embedding; no progress is written
EmbedBatchFallback(r) ==
    /\ pc[r] = "batches"
    /\ batch_i[r] < total_chunks[r]
    /\ \E got \in {0, BatchLen(r)} :
           n_embeddings' = [n_embeddings EXCEPT ![r] = @ + got]
    /\ batch_i' = [batch_i EXCEPT ![r] = @ + batch_size]
    /\ UNCHANGED <<job, pc, Catalog, temp_dir, exc_len, raised, total_chunks>>
    /\ UNCHANGED notJobVars

\* lines 389-395: the loop is over; processed_chunks=len(embeddings)
SetEmbedded(r) ==
    /\ batch_i[r] >= total_chunks[r]
    /\ StatusStep(r, "batches", "storing", STATUS_EMBEDDING, 80, None, n_embeddings[r])
    /\ batch_i' = [batch_i EXCEPT ![r] = 0]
    /\ n_embeddings' = [n_embeddings EXCEPT ![r] = 0]
    /\ UNCHANGED total_chunks
    /\ UNCHANGED notJobVars

\* lines 398-403
SetStoring(r) ==
    /\ StatusStep(r, "storing", "store", STATUS_STORING, 85, None, None)
    /\ UNCHANGED ChunkLocals
    /\ UNCHANGED notJobVars

\* lines 405-411: vector_store.store_document commits; it inserts the Document
\* row when there is none and sets status = 'completed'
StoreDocument(r) ==
    /\ pc[r] = "store"
    /\ doc_status' = "completed"
    /\ Goto(r, "finalize")
    /\ UNCHANGED <<job, doc_error_len, temp_dir, JobLocals>>
    /\ UNCHANGED notJobVars

\* lines 431, 559-580: _update_document_completed; an error of the UPDATE is
\* caught and rolled back inside
UpdateDocumentCompleted(r) ==
    /\ pc[r] = "finalize"
    /\ \/ doc_status' = IF doc_status = "absent" THEN "absent" ELSE "completed"
       \/ doc_status' = doc_status
    /\ Goto(r, "kb_stats")
    /\ UNCHANGED <<job, doc_error_len, temp_dir, JobLocals>>
    /\ UNCHANGED notJobVars

\* lines 432-451: the notification is best effort, _update_kb_stats catches
\* its own query errors
UpdateKbStats(r) ==
    /\ pc[r] = "kb_stats"
    /\ Goto(r, "completing")
    /\ UNCHANGED <<job, Catalog, temp_dir, JobLocals>>
    /\ UNCHANGED notJobVars

\* lines 454-460
SetCompleted(r) ==
    /\ StatusStep(r, "completing", "cleanup", STATUS_COMPLETED, 100, None,
                  total_chunks[r])
    /\ DropChunkLocals(r)
    /\ UNCHANGED notJobVars

\* lines 463, 234-241: cleanup_temp_file removes the directory if it exists
CleanupTempFile(r) ==
    /\ pc[r] = "cleanup"
    /\ temp_dir' = FALSE
    /\ Goto(r, "done")
    /\ UNCHANGED <<job, Catalog, JobLocals>>
    /\ UNCHANGED notJobVars

\* the positions of the try body at which a call can raise: extraction,
\* chunking, store_document, mysql.connector.connect in
\* _update_document_completed and _update_kb_stats, shutil.rmtree
RaisingPositions == {"extract", "chunk", "store", "finalize", "kb_stats", "cleanup"}

\* line 467: except Exception as e; the except block reads none of the
\* locals of the try body
Raise(r) ==
    /\ pc[r] \in RaisingPositions
    /\ pc[r] = "cleanup" => temp_dir
    /\ \E n \in ErrLens : exc_len' = [exc_len EXCEPT ![r] = n]
    /\ raised' = [raised EXCEPT ![r] = TRUE]
    /\ Goto(r, "handler")
    /\ DropChunkLocals(r)
    /\ UNCHANGED <<job, Catalog, temp_dir>>
    /\ UNCHANGED notJobVars

\* lines 471-476: status failed, error_message=str(e), progress not passed
SetFailed(r) ==
    /\ pc[r] = "handler"
    /\ job' = update_job_status(job, STATUS_FAILED, None, None, None, exc_len[r])
    /\ Goto(r, "mark_failed")
    /\ UNCHANGED <<Catalog, temp_dir, JobLocals>>
    /\ UNCHANGED notJobVars

\* lines 479, 582-603: _update_document_failed; the UPDATE matches the row if
\* there is one; an error of the UPDATE is caught and rolled back
UpdateDocumentFailed(r) ==
    /\ pc[r] = "mark_failed"
    /\ \/ /\ doc_status # "absent"
          /\ doc_status' = "failed"
          /\ doc_error_len' = Truncate(exc_len[r])
       \/ UNCHANGED Catalog
    /\ Goto(r, "handler_cleanup")
    /\ exc_len' = [exc_len EXCEPT ![r] = 0]
    /\ UNCHANGED <<job, temp_dir, raised, ChunkLocals>>
    /\ UNCHANGED notJobVars

\* line 584: mysql.connector.connect is called before the try of
\* _update_document_failed, so its error leaves the except block of line 467
UpdateDocumentFailedConnectRaises(r) ==
    /\ pc[r] = "mark_failed"
    /\ Goto(r, "escaped")
    /\ exc_len' = [exc_len EXCEPT ![r] = 0]
    /\ UNCHANGED <<job, Catalog, temp_dir, raised, ChunkLocals>>
    /\ UNCHANGED notJobVars

\* line 482
HandlerCleanup(r) ==
    /\ pc[r] = "handler_cleanup"
    /\ temp_dir' = FALSE
    /\ Goto(r, "done")
    /\ UNCHANGED <<job, Catalog, JobLocals>>
    /\ UNCHANGED notJobVars

\* line 482: shutil.rmtree raises inside the except block
HandlerCleanupRaises(r) ==
    /\ pc[r] = "handler_cleanup"
    /\ temp_dir
    /\ Goto(r, "escaped")
    /\ UNCHANGED <<job, Catalog, temp_dir, JobLocals>>
    /\ UNCHANGED notJobVars

Next ==
    \E r \in Runs :
        \/ upload_document(r)
        \/ reprocess_document(r)
        \/ SetProcessing(r)
        \/ SetExtracting(r)
        \/ ExtractContent(r)
        \/ SetTablesProcessed(r)
        \/ SetExtracted(r)
        \/ SetChunking(r)
        \/ ProcessText(r)
        \/ SetChunked(r)
        \/ SetEmbedding(r)
        \/ EmbedBatchOk(r)
        \/ EmbedBatchFallback(r)
        \/ SetEmbedded(r)
        \/ SetStoring(r)
        \/ StoreDocument(r)
        \/ UpdateDocumentCompleted(r)
        \/ UpdateKbStats(r)
        \/ SetCompleted(r)
        \/ CleanupTempFile(r)
        \/ Raise(r)
        \/ SetFailed(r)
        \/ UpdateDocumentFailed(r)
        \/ UpdateDocumentFailedConnectRaises(r)
        \/ HandlerCleanup(r)
        \/ HandlerCleanupRaises(r)

-----------------------------------------------------------------------------
(* VectorStore: store_document and delete_document *)

Docs == {"d1", "d2"}

NoRun == [active |-> FALSE, chunks |-> {}, embedded |-> {}, reprocess |-> FALSE]

Row(c, d) == [chunk_id |-> c, document_id |-> d]

RowsOf(d) == {r \in chunk_rows : r.document_id = d}
VectorsOf(d) == {v \in vectors : v.document_id = d}

\* the first k elements of S in list order (chunk ids grow along the list)
Prefix(S, k) == {x \in S : Cardinality({y \in S : y < x}) < k}

StoreInit ==
    /\ documents = {}
    /\ chunk_rows = {}
    /\ vectors = {}
    /\ inflight = [d \in Docs |-> NoRun]
    /\ next_chunk_id = 1
    /\ deleted_in_flight = [d \in Docs |-> FALSE]
    /\ last_op = [op |-> "none", doc |-> "none"]

\* the catalog owner inserts the Document row (outside this service)
CatalogCreateDocument(d) ==
    /\ d \notin documents
    /\ documents' = documents \cup {d}
    /\ deleted_in_flight' = [deleted_in_flight EXCEPT ![d] = FALSE]
    /\ last_op' = [op |-> "catalog_create", doc |-> d]
    /\ UNCHANGED <<chunk_rows, vectors, inflight, next_chunk_id>>
    /\ UNCHANGED notStoreVars

\* the catalog owner deletes the Document row (outside this service)
CatalogRemoveDocument(d) ==
    /\ d \in documents
    /\ documents' = documents \ {d}
    /\ deleted_in_flight' = [deleted_in_flight EXCEPT ![d] = inflight[d].active]
    /\ last_op' = [op |-> "catalog_remove", doc |-> d]
    /\ UNCHANGED <<chunk_rows, vectors, inflight, next_chunk_id>>
    /\ UNCHANGED notStoreVars

\* a background job of d has chunked and embedded: n chunks with fresh ids,
\* those in `embedded` have an entry in embeddings
StartJob(d) ==
    /\ ~inflight[d].active
    /\ \E n \in 1..MaxJobChunks :
         /\ next_chunk_id + n - 1 <= MaxChunkIds
         /\ \E E \in SUBSET (next_chunk_id..(next_chunk_id + n - 1)) :
              inflight' = [inflight EXCEPT ![d] =
                  [active |-> TRUE,
                   chunks |-> next_chunk_id..(next_chunk_id + n - 1),
                   embedded |-> E, reprocess |-> FALSE]]
         /\ next_chunk_id' = next_chunk_id + n
    /\ deleted_in_flight' = [deleted_in_flight EXCEPT ![d] = FALSE]
    /\ last_op' = [op |-> "start", doc |-> d]
    /\ UNCHANGED <<documents, chunk_rows, vectors>>
    /\ UNCHANGED notStoreVars

\* store_document, lines 63-145: the Document row is inserted when missing; each
\* chunk with an embedding gets a row and a vector key; commit
store_document(d) ==
    /\ inflight[d].active
    /\ documents' = documents \cup {d}
    /\ chunk_rows' = chunk_rows \cup {Row(c, d) : c \in inflight[d].embedded}
    /\ vectors' = vectors \cup {Row(c, d) : c \in inflight[d].embedded}
    /\ inflight' = [inflight EXCEPT ![d] = NoRun]
    /\ last_op' = [op |-> "store", doc |-> d]
    /\ UNCHANGED <<next_chunk_id, deleted_in_flight>>
    /\ UNCHANGED notStoreVars

\* store_document, lines 147-150: an INSERT, redis set, UPDATE or commit raises
\* after k chunks were written; conn.rollback() undoes the MySQL rows, the k
\* redis keys stay
store_document_raises(d) ==
    /\ inflight[d].active
    /\ \E k \in 0..Cardinality(inflight[d].embedded) :
         vectors' = vectors \cup {Row(c, d) : c \in Prefix(inflight[d].embedded, k)}
    /\ inflight' = [inflight EXCEPT ![d] = NoRun]
    /\ last_op' = [op |-> "store_raised", doc |-> d]
    /\ UNCHANGED <<documents, chunk_rows, next_chunk_id, deleted_in_flight>>
    /\ UNCHANGED notStoreVars

\* delete_document, lines 441-461: the keys of the document's chunk rows are
\* deleted from Redis, then the rows from MySQL; commit
delete_document(d) ==
    /\ vectors' = {v \in vectors : v.chunk_id \notin {r.chunk_id : r \in RowsOf(d)}}
    /\ chunk_rows' = chunk_rows \ RowsOf(d)
    /\ last_op' = [op |-> "delete", doc |-> d]
    /\ UNCHANGED <<documents, inflight, next_chunk_id, deleted_in_flight>>
    /\ UNCHANGED notStoreVars

\* delete_document, lines 463-466: a redis delete or the DELETE raises after k
\* keys were removed; rollback keeps the rows
delete_document_raises(d) ==
    /\ \E k \in 0..Cardinality(RowsOf(d)) :
         vectors' = {v \in vectors :
                        v.chunk_id \notin Prefix({r.chunk_id : r \in RowsOf(d)}, k)}
    /\ last_op' = [op |-> "delete_raised", doc |-> d]
    /\ UNCHANGED <<documents, chunk_rows, inflight, next_chunk_id, deleted_in_flight>>
    /\ UNCHANGED notStoreVars

\* POST /documents/{id}/reprocess, routes/documents.py lines 339-399: 404
\* without a Document row; delete_document, then create_job and the background
\* task, whose chunks get fresh ids. One run of a document at a time here.
reprocess_document_store(d) ==
    /\ d \in documents
    /\ ~inflight[d].active
    /\ vectors' = {v \in vectors : v.chunk_id \notin {r.chunk_id : r \in RowsOf(d)}}
    /\ chunk_rows' = chunk_rows \ RowsOf(d)
    /\ \E n \in 1..MaxJobChunks :
         /\ next_chunk_id + n - 1 <= MaxChunkIds
         /\ \E E \in SUBSET (next_chunk_id..(next_chunk_id + n - 1)) :
              inflight' = [inflight EXCEPT ![d] =
                  [active |-> TRUE,
                   chunks |-> next_chunk_id..(next_chunk_id + n - 1),
                   embedded |-> E, reprocess |-> TRUE]]
         /\ next_chunk_id' = next_chunk_id + n
    /\ deleted_in_flight' = [deleted_in_flight EXCEPT ![d] = FALSE]
    /\ last_op' = [op |-> "reprocess", doc |-> d]
    /\ UNCHANGED documents
    /\ UNCHANGED notStoreVars

StoreNext ==
    \E d \in Docs :
        \/ CatalogCreateDocument(d)
        \/ CatalogRemoveDocument(d)
        \/ StartJob(d)
        \/ store_document(d)
        \/ store_document_raises(d)
        \/ delete_document(d)
        \/ delete_document_raises(d)
        \/ reprocess_document_store(d)

-----------------------------------------------------------------------------
(* VectorStore.search with SemanticCache, run by several worker processes *)

\* uvicorn.run(workers=settings.PYTHON_WORKERS): two of the processes
Workers == {1, 2}

Queries == {"q1", "q2", "q3"}

\* cosine similarity of two query embeddings, times 100: q2 paraphrases q1
QuerySimilarity(a, b) ==
    IF a = b THEN 100
    ELSE IF {a, b} = {"q1", "q2"} THEN 97
    ELSE 40

\* cosine similarity of a query and a stored chunk embedding, times 100
ChunkScore(q, c) ==
    CASE c = "c1" -> IF q = "q3" THEN 20 ELSE 90
      [] c = "c2" -> IF q = "q3" THEN 80 ELSE 60
      [] OTHER    -> 70

AllChunks == <<"c1", "c2", "c3">>

NoEntry == [query |-> "none", results |-> <<>>, access_count |-> 0]
NoResponse == [query |-> "none", search_type |-> "none", top_k |-> 0,
               text_results |-> <<>>, cached |-> FALSE, cache_similarity |-> 0,
               served |-> FALSE]
\* the locals of one search call; previous is the response to the same query
\* and search type that had been returned when this call began
NoRequest == [query |-> "none", top_k |-> 0, search_type |-> "none",
              best_key |-> "none", best_similarity |-> 0, best_match |-> NoEntry,
              cache_index |-> <<>>, previous |-> NoResponse]

\* list.sort(key=lambda x: x["score"], reverse=True): stable, descending
InsertDesc(s, x) ==
    LET n == Cardinality({i \in 1..Len(s) : s[i].score >= x.score})
    IN  SubSeq(s, 1, n) \o <<x>> \o SubSeq(s, n + 1, Len(s))

RECURSIVE SortDesc(_)
SortDesc(s) ==
    IF s = <<>> THEN <<>>
    ELSE InsertDesc(SortDesc(SubSeq(s, 1, Len(s) - 1)), s[Len(s)])

\* s[:k]
Take(s, k) == SubSeq(s, 1, Min(k, Len(s)))

\* lines 253-274: one similarity per document key, sorted, cut to top_k
DenseSearch(q, top_k) ==
    Take(SortDesc([i \in 1..Len(kb_vectors) |->
                      [chunk_id |-> kb_vectors[i],
                       score |-> ChunkScore(q, kb_vectors[i])]]), top_k)

\* get_cached_result, lines 126-149: the scan of the index keys; an entry
\* replaces the best one only with a strictly larger similarity
RECURSIVE BestMatch(_, _, _)
BestMatch(index, q, best) ==
    IF index = <<>> THEN best
    ELSE LET key == Head(index)
             similarity == QuerySimilarity(q, cache[key].query)
         IN  IF cache[key] # NoEntry /\ similarity > best.similarity
             THEN BestMatch(Tail(index), q,
                            [key |-> key, similarity |-> similarity])
             ELSE BestMatch(Tail(index), q, best)

\* line 152: best_match and best_similarity >= self.similarity_threshold
IsHit(best) == best.key # "none" /\ best.similarity >= similarity_threshold

CacheInit ==
    /\ kb_vectors = AllChunks
    /\ cache = [q \in Queries |-> NoEntry]
    /\ cache_index = <<>>
    /\ hits_served = [q \in Queries |-> 0]
    /\ wpc = [w \in Workers |-> "idle"]
    /\ local = [w \in Workers |-> NoRequest]
    /\ response = [w \in Workers |-> NoResponse]
    /\ searches = 0

\* a response to the same query and search type that has been returned
PreviousResponse(q, t) ==
    LET same == {o \in Workers : /\ response[o].served
                                  /\ response[o].query = q
                                  /\ response[o].search_type = t}
    IN  IF same = {} THEN NoResponse ELSE response[CHOOSE o \in same : TRUE]

\* search, lines 181-193 and get_cached_result, lines 105-152: the request
\* arrives, the index and the entries are read and compared
CacheLookup(w) ==
    /\ wpc[w] = "idle"
    /\ searches < MaxSearches
    /\ \E q \in Queries, k \in 1..MaxTopK, t \in {"text", "hybrid"} :
         LET best == BestMatch(cache_index, q, [key |-> "none", similarity |-> 0])
             hit == t = "text" /\ IsHit(best)
         IN  /\ local' = [local EXCEPT ![w] =
                    [query |-> q, top_k |-> k, search_type |-> t,
                     best_key |-> IF hit THEN best.key ELSE "none",
                     best_similarity |-> IF hit THEN best.similarity ELSE 0,
                     best_match |-> IF hit THEN cache[best.key] ELSE NoEntry,
                     cache_index |-> <<>>,
                     previous |-> PreviousResponse(q, t)]]
             /\ wpc' = [wpc EXCEPT ![w] = IF hit THEN "hit" ELSE "miss"]
    /\ searches' = searches + 1
    /\ response' = [response EXCEPT ![w] = NoResponse]
    /\ UNCHANGED <<kb_vectors, cache, cache_index, hits_served>>
    /\ UNCHANGED notCacheVars

\* get_cached_result, lines 159-175 and search, lines 195-236: the entry read
\* before is written back with access_count + 1 and its results are returned
CacheHit(w) ==
    /\ wpc[w] = "hit"
    /\ cache' = [cache EXCEPT ![local[w].best_key] =
                    [local[w].best_match EXCEPT !.access_count = @ + 1]]
    /\ hits_served' = [hits_served EXCEPT ![local[w].best_key] = @ + 1]
    /\ response' = [response EXCEPT ![w] =
                       [query |-> local[w].query,
                        search_type |-> local[w].search_type,
                        top_k |-> local[w].top_k,
                        text_results |-> local[w].best_match.results,
                        cached |-> TRUE,
                        cache_similarity |-> local[w].best_similarity,
                        served |-> TRUE]]
    /\ wpc' = [wpc EXCEPT ![w] = "idle"]
    /\ UNCHANGED <<kb_vectors, cache_index, local, searches>>
    /\ UNCHANGED notCacheVars

\* search, lines 238-306: the dense search and the response it builds
SearchResults(w) ==
    [query |-> local[w].query, search_type |-> local[w].search_type,
     top_k |-> local[w].top_k,
     text_results |-> DenseSearch(local[w].query, local[w].top_k),
     cached |-> FALSE, cache_similarity |-> 0, served |-> TRUE]

\* line 309: self.enable_cache and search_type == "text" and len(text_results) > 0
Cacheable(w) ==
    local[w].search_type = "text" /\ Len(SearchResults(w).text_results) > 0

\* search, lines 238-355 when the results are not cached: the response returns
CacheMiss(w) ==
    /\ wpc[w] = "miss"
    /\ ~Cacheable(w)
    /\ response' = [response EXCEPT ![w] = SearchResults(w)]
    /\ wpc' = [wpc EXCEPT ![w] = "idle"]
    /\ UNCHANGED <<kb_vectors, cache, cache_index, hits_served, local, searches>>
    /\ UNCHANGED notCacheVars

\* search, lines 238-353, cache_result, lines 207-233 and _update_cache_index,
\* lines 256-262: the entry is written with access_count 0 and the index is read
cache_result(w) ==
    /\ wpc[w] = "miss"
    /\ Cacheable(w)
    /\ cache' = [cache EXCEPT ![local[w].query] =
                    [query |-> local[w].query,
                     results |-> SearchResults(w).text_results,
                     access_count |-> 0]]
    /\ hits_served' = [hits_served EXCEPT ![local[w].query] = 0]
    /\ local' = [local EXCEPT ![w].cache_index = cache_index]
    /\ wpc' = [wpc EXCEPT ![w] = "index"]
    /\ UNCHANGED <<kb_vectors, cache_index, response, searches>>
    /\ UNCHANGED notCacheVars

\* _update_cache_index, lines 264-281: the list read before, with the new key
\* appended and cut to its last IndexLimit entries, replaces the index; then
\* search returns (line 355)
update_cache_index(w) ==
    /\ wpc[w] = "index"
    /\ LET appended == Append(local[w].cache_index, local[w].query)
       IN  cache_index' =
               IF Len(appended) > IndexLimit
               THEN SubSeq(appended, Len(appended) - IndexLimit + 1, Len(appended))
               ELSE appended
    /\ response' = [response EXCEPT ![w] = SearchResults(w)]
    /\ local' = [local EXCEPT ![w].cache_index = <<>>]
    /\ wpc' = [wpc EXCEPT ![w] = "idle"]
    /\ UNCHANGED <<kb_vectors, cache, hits_served, searches>>
    /\ UNCHANGED notCacheVars

CacheNext ==
    \E w \in Workers :
        \/ CacheLookup(w)
        \/ CacheHit(w)
        \/ CacheMiss(w)
        \/ cache_result(w)
        \/ update_cache_index(w)

-----------------------------------------------------------------------------
(* EnhancedSearchService.search: the stages applied to the vector search output.
   Scores are in thousandths. *)

\* the chunks of the knowledge base as the vector search scores them for the
\* query: content words, normalised BM25 score, intent context modifier
\* (calculate_context_score: 0, +-0.10, +-0.15), keyword signal of the reranker
Pool ==
    << [id |-> "A", score |-> 900, words |-> {"x", "y"}, bm25 |-> 0,
        modifier |-> 0, signal |-> 100],
       [id |-> "B", score |-> 850, words |-> {"x", "y"}, bm25 |-> 1000,
        modifier |-> -150, signal |-> 400],
       [id |-> "C", score |-> 600, words |-> {"z"}, bm25 |-> 500,
        modifier |-> 150, signal |-> 0],
       [id |-> "D", score |-> 550, words |-> {"x", "z"}, bm25 |-> 0,
        modifier |-> 100, signal |-> 300],
       [id |-> "E", score |-> 300, words |-> {"w"}, bm25 |-> 0,
        modifier |-> 0, signal |-> 0] >>

\* the elements of s whose position is in P, in the order of s
RECURSIVE SelectPositions(_, _, _)
SelectPositions(s, P, i) ==
    IF i > Len(s) THEN <<>>
    ELSE (IF i \in P THEN <<s[i]>> ELSE <<>>) \o SelectPositions(s, P, i + 1)

\* [r for r in s if r.score >= bound]
RECURSIVE FilterByScore(_, _)
FilterByScore(s, bound) ==
    IF s = <<>> THEN <<>>
    ELSE (IF Head(s).score >= bound THEN <<Head(s)>> ELSE <<>>)
         \o FilterByScore(Tail(s), bound)

\* _merge_bm25_scores, lines 621-634
merge_bm25_scores(results) ==
    SortDesc([i \in 1..Len(results) |->
        [results[i] EXCEPT !.score =
            ((10 - bm25_weight) * @ + bm25_weight * results[i].bm25) \div 10]])

\* lines 424-442: the modifier is added and the score clamped to [0, 1]; re-sort
intent_filter(results) ==
    SortDesc([i \in 1..Len(results) |->
        [results[i] EXCEPT !.score = Max(0, Min(1000, @ + results[i].modifier))]])

\* the threshold step without the fallback: every result below min_relevance
\* is dropped, as in step 5 of enhanced_search_current.py, lines 250-258
strict_threshold_filter(results, top_k) ==
    FilterByScore(results, min_relevance)

\* lines 456-474: the threshold keeps at least min(top_k, 3) results
threshold_filter(results, top_k) ==
    LET filtered_results == FilterByScore(results, min_relevance)
        min_required == Min(top_k, 3)
    IN  IF Len(filtered_results) >= min_required
        THEN filtered_results
        ELSE Take(SortDesc(results), Max(min_required, Len(filtered_results)))

\* Jaccard similarity of two word sets, times 12 (the unions have 1 to 4 words)
Jaccard(c_words, s_words) ==
    IF c_words \cup s_words = {} THEN 0
    ELSE (12 * Cardinality(c_words \cap s_words))
             \div Cardinality(c_words \cup s_words)

MaxSim(candidate, selected) ==
    LET sims == {Jaccard(candidate.words, selected[i].words) : i \in 1..Len(selected)}
    IN  CHOOSE m \in sims \cup {0} : \A x \in sims \cup {0} : m >= x

\* mmr_lambda * relevance - (1 - mmr_lambda) * max_sim, times 120000
MMRScore(candidate, selected) ==
    12 * mmr_lambda * candidate.score
        - 1000 * (10 - mmr_lambda) * MaxSim(candidate, selected)

\* lines 650-672: the first candidate with the largest MMR score
BestCandidate(candidates, selected) ==
    CHOOSE i \in 1..Len(candidates) :
        /\ \A j \in 1..Len(candidates) :
               MMRScore(candidates[i], selected) >= MMRScore(candidates[j], selected)
        /\ \A j \in 1..(i - 1) :
               MMRScore(candidates[j], selected) < MMRScore(candidates[i], selected)

\* lines 649-678: the selection loop
RECURSIVE MMRLoop(_, _, _)
MMRLoop(selected, candidates, top_k) ==
    IF Len(selected) >= top_k \/ candidates = <<>> THEN selected
    ELSE LET b == BestCandidate(candidates, selected)
         IN  MMRLoop(Append(selected, candidates[b]),
                     SelectPositions(candidates, (1..Len(candidates)) \ {b}, 1),
                     top_k)

\* _apply_mmr, lines 636-680: the result is in selection order
apply_mmr(results, top_k) ==
    IF Len(results) <= top_k THEN results
    ELSE MMRLoop(<<results[1]>>, Tail(results), top_k)

\* SimpleReranker.rerank (reranker.py, lines 197-242): the new score is the
\* keyword signal plus 0.4 * original score; sort, cut to top_k
rerank(results, top_k) ==
    IF results = <<>> THEN <<>>
    ELSE Take(SortDesc([i \in 1..Len(results) |->
                 [results[i] EXCEPT !.score = results[i].signal + (4 * @) \div 10]]),
              top_k)

\* the trim without a preceding sort (lines 506-507)
FinalTrim(results, top_k) == Take(results, top_k)

\* search, lines 380-449: steps 4 and 5, whose output the threshold step reads
Candidates(all_results, rq) ==
    LET s4 == IF rq.do_bm25 THEN merge_bm25_scores(all_results) ELSE all_results
    IN  IF rq.do_intent_filter /\ rq.intent_known THEN intent_filter(s4) ELSE s4

\* search, lines 380-507: steps 4 to 8 and the final trim
Pipeline(all_results, rq) ==
    LET s5 == Candidates(all_results, rq)
        s6 == IF rq.do_threshold THEN threshold_filter(s5, rq.top_k) ELSE s5
        s7 == IF rq.do_mmr /\ Len(s6) > rq.top_k THEN apply_mmr(s6, rq.top_k) ELSE s6
        s8 == IF rq.do_reranking /\ Len(s7) > 1 THEN rerank(s7, rq.top_k) ELSE s7
    IN  FinalTrim(s8, rq.top_k)

NoSearch == [top_k |-> 0, do_bm25 |-> FALSE, do_intent_filter |-> FALSE,
             intent_known |-> FALSE, do_threshold |-> FALSE, do_mmr |-> FALSE,
             do_reranking |-> FALSE, fetched |-> {}]

\* line 365
fetch_multiplier(rq) ==
    IF rq.do_mmr \/ rq.do_reranking \/ rq.do_intent_filter THEN 3 ELSE 1

NoRetrieval == [query |-> "none", search_terms |-> <<>>, vector_searches |-> <<>>]

\* step 1, lines 335-347: the query the rewriter returns; the original query
\* when rewriting is off, there is no conversation history, or the rewriter raises
rewrite(rewriting) == IF rewriting = "rewritten" THEN "rewritten query" ELSE "query"

\* step 2, lines 352-359: get_search_terms; no terms when expansion is off or
\* the expansion raises
get_search_terms(expansion) == IF expansion = "terms" THEN <<"term", "synonym">> ELSE <<>>

\* a retrieval that searches for every expanded term as well
search_every_term(rewritten_query, search_terms) ==
    <<rewritten_query>> \o search_terms

\* step 3, lines 363-377: the queries vector_store.search is called with
vector_store_search(rewritten_query, search_terms) == <<rewritten_query>>

SearchInit ==
    /\ search_request = NoSearch
    /\ final_results = <<>>
    /\ retrieval = NoRetrieval

\* search, lines 305-555: the query is rewritten and expanded, the vector
\* search returns up to top_k * fetch_multiplier chunks in descending score
\* order, the stages run
enhanced_search ==
    /\ search_request = NoSearch
    /\ \E k \in 1..MaxTopK, P \in SUBSET (1..Len(Pool)),
          bm, it, ik, th, mm, rr \in BOOLEAN :
         LET rq == [top_k |-> k, do_bm25 |-> bm, do_intent_filter |-> it,
                    intent_known |-> ik, do_threshold |-> th, do_mmr |-> mm,
                    do_reranking |-> rr, fetched |-> P]
         IN  /\ Cardinality(P) <= k * fetch_multiplier(rq)
             /\ search_request' = rq
             /\ final_results' = Pipeline(SelectPositions(Pool, P, 1), rq)
    /\ \E rewriting \in {"off", "rewritten", "raised"},
          expansion \in {"off", "terms", "raised"} :
         LET rewritten_query == rewrite(rewriting)
             search_terms == get_search_terms(expansion)
         IN  retrieval' = [query |-> rewritten_query, search_terms |-> search_terms,
                           vector_searches |->
                               vector_store_search(rewritten_query, search_terms)]
    /\ UNCHANGED notSearchVars

\* the response is returned
search_returns ==
    /\ search_request # NoSearch
    /\ search_request' = NoSearch
    /\ final_results' = <<>>
    /\ retrieval' = NoRetrieval
    /\ UNCHANGED notSearchVars

SearchNext ==
    \/ enhanced_search
    \/ search_returns

-----------------------------------------------------------------------------
(* ScrapeSyncService: the scrape sources of one knowledge base and the sync
   loops, one per worker process (lifespan starts run_sync_loop in each) *)

SyncLoops == {1, 2}

\* every source has one page, at the URL of the source
Sources == {"s1", "s2"}

\* the uuid4 values handed out, in order
DocumentIds == <<"u1", "u2", "u3", "u4">>

\* a row of yovo_tbl_aiva_scrape_sources; due: next_sync_at is NULL or has passed;
\* last_scraped: the page content the last scrape or sync of the source saw
NoSource == [present |-> FALSE, auto_sync_enabled |-> FALSE, sync_status |-> "idle",
             due |-> FALSE, last_error |-> FALSE, last_scraped |-> 0]

NoSyncResult == [source |-> "none", status |-> "none", new |-> 0, changed |-> 0,
                 removed |-> 0, unchanged |-> 0]

\* compute_content_hash: SHA-256 of the page text, 0 standing for NULL;
\* distinct contents have distinct hashes
compute_content_hash(content) == content

\* web_scraper.scrape_url(...)['pages'] of the source: its page if it exists
ScrapedPages(s) == IF remote[s] = 0 THEN {} ELSE {s}

\* store_document, lines 84-88: storage_url = /storage/documents/{document_id}
StorageUrl(document_id) == document_id

\* process_text_content and store_document for a fresh document_id: the
\* Document row the INSERT of store_document makes, and its chunks and vectors
NewDocument(s, hash) ==
    [id |-> DocumentIds[next_document], scrape_source_id |-> s,
     storage_url |-> StorageUrl(DocumentIds[next_document]),
     content_hash |-> hash, source_url |-> s, content |-> remote[s]]

\* check_for_changes, lines 113-118: the documents of the source by storage_url
ExistingDocs(s) == {d \in sync_documents : d.scrape_source_id = s}

\* check_for_changes, lines 132-184
check_for_changes(s) ==
    LET existing_docs == ExistingDocs(s)
        known(p) == {d \in existing_docs : d.storage_url = p}
        new_pages == {p \in ScrapedPages(s) : known(p) = {}}
        changed_pages == {p \in ScrapedPages(s) :
                            \E d \in known(p) :
                                d.content_hash # compute_content_hash(remote[s])}
        unchanged_pages == {p \in ScrapedPages(s) :
                              \E d \in known(p) :
                                  d.content_hash = compute_content_hash(remote[s])}
        removed_pages == {d \in existing_docs : d.storage_url \notin ScrapedPages(s)}
    IN  [new_pages |-> new_pages, changed_pages |-> changed_pages,
         removed_pages |-> removed_pages,
         has_changes |-> new_pages # {} \/ changed_pages # {} \/ removed_pages # {},
         summary |-> [new |-> Cardinality(new_pages),
                      changed |-> Cardinality(changed_pages),
                      removed |-> Cardinality(removed_pages),
                      unchanged |-> Cardinality(unchanged_pages)]]

SyncInit ==
    /\ scrape_sources = [s \in Sources |-> NoSource]
    /\ remote = [s \in Sources |-> 1]
    /\ sync_documents = {}
    /\ next_document = 1
    /\ loop_pc = [l \in SyncLoops |-> "sleeping"]
    /\ loop_sources = [l \in SyncLoops |-> <<>>]
    /\ sync_result = NoSyncResult

\* routes/documents.py scrape_url, lines 479-664: every scraped page becomes a
\* new document; the source row is created or updated with sync_status idle
scrape_url(s) ==
    /\ next_document <= MaxSyncDocuments
    /\ ScrapedPages(s) # {}
    /\ \E auto_sync_enabled \in BOOLEAN :
         scrape_sources' = [scrape_sources EXCEPT ![s] =
             [present |-> TRUE, auto_sync_enabled |-> auto_sync_enabled,
              sync_status |-> "idle", due |-> FALSE, last_error |-> @.last_error,
              last_scraped |-> remote[s]]]
    /\ sync_documents' = sync_documents \cup {NewDocument(s, 0)}
    /\ next_document' = next_document + 1
    /\ UNCHANGED <<remote, loop_pc, loop_sources, sync_result>>
    /\ UNCHANGED notSyncVars

\* the site changes its page, removes it or puts it back
RemoteChanges(s) ==
    /\ \E content \in 0..MaxVersion :
         /\ content # remote[s]
         /\ remote' = [remote EXCEPT ![s] = content]
    /\ UNCHANGED <<scrape_sources, sync_documents, next_document, loop_pc,
                   loop_sources, sync_result>>
    /\ UNCHANGED notSyncVars

\* next_sync_at of the source passes
SyncComesDue(s) ==
    /\ scrape_sources[s].present
    /\ ~scrape_sources[s].due
    /\ scrape_sources' = [scrape_sources EXCEPT ![s].due = TRUE]
    /\ UNCHANGED <<remote, sync_documents, next_document, loop_pc, loop_sources,
                   sync_result>>
    /\ UNCHANGED notSyncVars

\* the rows get_sources_due_for_sync selects, lines 346-353
IsDue(s) ==
    /\ scrape_sources[s].present
    /\ scrape_sources[s].auto_sync_enabled
    /\ scrape_sources[s].sync_status # "syncing"
    /\ scrape_sources[s].due

DueSources ==
    (IF IsDue("s1") THEN <<"s1">> ELSE <<>>) \o (IF IsDue("s2") THEN <<"s2">> ELSE <<>>)

\* run_sync_loop, lines 365-369: the loop wakes and reads the sources due
get_sources_due_for_sync(l) ==
    /\ loop_pc[l] = "sleeping"
    /\ loop_sources' = [loop_sources EXCEPT ![l] = DueSources]
    /\ loop_pc' = [loop_pc EXCEPT ![l] = "cycle"]
    /\ UNCHANGED <<scrape_sources, remote, sync_documents, next_document, sync_result>>
    /\ UNCHANGED notSyncVars

\* sync_source, lines 192-202: the next source of the cycle is marked syncing
sync_source_begins(l) ==
    /\ loop_pc[l] = "cycle"
    /\ loop_sources[l] # <<>>
    /\ scrape_sources' = [scrape_sources EXCEPT ![Head(loop_sources[l])].sync_status =
                              "syncing"]
    /\ loop_pc' = [loop_pc EXCEPT ![l] = "syncing"]
    /\ UNCHANGED <<remote, sync_documents, next_document, loop_sources, sync_result>>
    /\ UNCHANGED notSyncVars

\* sync_source, lines 204-324. Without changes the source becomes idle at once
\* (lines 207-215). Otherwise new pages are ingested under a fresh document
\* id; for changed and for removed pages the first statement,
\* self.vector_store.delete_document_vectors, raises AttributeError (VectorStore
\* has no such method), which lines 289 and 305 log; the source becomes idle
sync_source_returns(l) ==
    /\ loop_pc[l] = "syncing"
    /\ LET s == Head(loop_sources[l])
           change_result == check_for_changes(s)
           ingests == change_result.new_pages # {}
       IN  /\ ingests => next_document <= MaxSyncDocuments
           /\ sync_documents' =
                  IF ingests
                  THEN sync_documents \cup
                           {NewDocument(s, compute_content_hash(remote[s]))}
                  ELSE sync_documents
           /\ next_document' = IF ingests THEN next_document + 1 ELSE next_document
           /\ scrape_sources' =
                  [scrape_sources EXCEPT
                      ![s].sync_status = "idle",
                      ![s].due = FALSE,
                      ![s].last_error = IF change_result.has_changes THEN FALSE ELSE @,
                      ![s].last_scraped = remote[s]]
           /\ sync_result' =
                  [source |-> s,
                   status |-> IF change_result.has_changes THEN "synced"
                              ELSE "no_changes"] @@ change_result.summary
    /\ loop_sources' = [loop_sources EXCEPT ![l] = Tail(@)]
    /\ loop_pc' = [loop_pc EXCEPT ![l] = "cycle"]
    /\ UNCHANGED remote
    /\ UNCHANGED notSyncVars

\* sync_source, lines 326-334 and run_sync_loop, lines 374-375: the scrape or a
\* statement of the sync raises; the source is marked error, the loop logs
sync_source_raises(l) ==
    /\ loop_pc[l] = "syncing"
    /\ LET s == Head(loop_sources[l])
       IN  /\ scrape_sources' = [scrape_sources EXCEPT ![s].sync_status = "error",
                                                        ![s].last_error = TRUE]
           /\ sync_result' = [NoSyncResult EXCEPT !.source = s, !.status = "error"]
    /\ loop_sources' = [loop_sources EXCEPT ![l] = Tail(@)]
    /\ loop_pc' = [loop_pc EXCEPT ![l] = "cycle"]
    /\ UNCHANGED <<remote, sync_documents, next_document>>
    /\ UNCHANGED notSyncVars

\* run_sync_loop, line 380: every source of the cycle handled, the loop sleeps
sync_loop_sleeps(l) ==
    /\ loop_pc[l] = "cycle"
    /\ loop_sources[l] = <<>>
    /\ loop_pc' = [loop_pc EXCEPT ![l] = "sleeping"]
    /\ UNCHANGED <<scrape_sources, remote, sync_documents, next_document,
                   loop_sources, sync_result>>
    /\ UNCHANGED notSyncVars

SyncNext ==
    \/ \E s \in Sources :
           \/ scrape_url(s)
           \/ RemoteChanges(s)
           \/ SyncComesDue(s)
    \/ \E l \in SyncLoops :
           \/ get_sources_due_for_sync(l)
           \/ sync_source_begins(l)
           \/ sync_source_returns(l)
           \/ sync_source_raises(l)
           \/ sync_loop_sleeps(l)

-----------------------------------------------------------------------------
(* ImageProcessingQueue: the calls of process in one worker process. The event
   loop runs one coroutine at a time, so the code between two awaits that
   suspend is one step. *)

ImageTasks == {1, 2, 3}

\* ImageProcessingQueue.__init__, lines 29-40; permits is the value of the
\* asyncio.Semaphore
NewQueue(max_concurrent) ==
    [max_concurrent |-> max_concurrent, permits |-> max_concurrent,
     active_tasks |-> 0, total_processed |-> 0, total_failed |-> 0,
     peak_concurrent |-> 0]

NoTask == [pc |-> "idle", queue |-> 0, cleaned |-> FALSE]

\* ImageProcessor.__init__, lines 45-46: the first get_image_queue call makes
\* the queue when the service starts
QueueInit ==
    /\ image_queues = <<NewQueue(IMAGE_PROCESSING_CONCURRENCY)>>
    /\ image_tasks = [t \in ImageTasks |-> NoTask]

\* set_queue_concurrency, lines 272-281: _global_queue is replaced by a new
\* object; the ImageProcessor instances made before keep self.queue
set_queue_concurrency(max_concurrent) ==
    /\ Len(image_queues) < MaxQueues
    /\ image_queues' = Append(image_queues, NewQueue(max_concurrent))
    /\ UNCHANGED image_tasks
    /\ UNCHANGED notQueueVars

\* generate_image_embedding, lines 161-165 and process, lines 63-66: the call
\* goes to the queue of its ImageProcessor, which is the queue that was
\* _global_queue when the ImageProcessor was made, and waits for a slot
process_called(t) ==
    /\ image_tasks[t].pc = "idle"
    /\ \E q \in 1..Len(image_queues) :
         image_tasks' = [image_tasks EXCEPT ![t] =
                            [pc |-> "waiting", queue |-> q, cleaned |-> FALSE]]
    /\ UNCHANGED image_queues
    /\ UNCHANGED notQueueVars

\* process, lines 66-84: the semaphore is acquired, active_tasks and
\* peak_concurrent are updated, func starts
semaphore_acquired(t) ==
    /\ image_tasks[t].pc = "waiting"
    /\ LET q == image_tasks[t].queue
       IN  /\ image_queues[q].permits > 0
           /\ image_queues' = [image_queues EXCEPT ![q] =
                  [@ EXCEPT !.permits = @ - 1,
                            !.active_tasks = @ + 1,
                            !.peak_concurrent =
                                Max(@, image_queues[q].active_tasks + 1)]]
    /\ image_tasks' = [image_tasks EXCEPT ![t].pc = "running"]
    /\ UNCHANGED notQueueVars

\* an exit that runs finally but keeps the slot of the semaphore
leave_without_release(queue) ==
    [queue EXCEPT !.active_tasks = @ - 1]

\* what every exit of the with block does: finally (lines 107-109) and the
\* release of the semaphore
LeaveQueue(queue) ==
    [queue EXCEPT !.active_tasks = @ - 1, !.permits = @ + 1]

\* process, lines 84-98 and 107-109: func returns, _cleanup_memory runs
func_returns(t) ==
    /\ image_tasks[t].pc = "running"
    /\ LET q == image_tasks[t].queue
       IN  image_queues' = [image_queues EXCEPT ![q] =
               LeaveQueue([@ EXCEPT !.total_processed = @ + 1])]
    /\ image_tasks' = [image_tasks EXCEPT ![t].pc = "returned", ![t].cleaned = TRUE]
    /\ UNCHANGED notQueueVars

\* process, lines 100-109: func raises an Exception, which is counted and
\* raised again
func_raises(t) ==
    /\ image_tasks[t].pc = "running"
    /\ LET q == image_tasks[t].queue
       IN  image_queues' = [image_queues EXCEPT ![q] =
               LeaveQueue([@ EXCEPT !.total_failed = @ + 1])]
    /\ image_tasks' = [image_tasks EXCEPT ![t].pc = "raised"]
    /\ UNCHANGED notQueueVars

\* the task is cancelled while func runs: CancelledError is no Exception, so
\* only finally (lines 107-109) and the release of the semaphore run
cancelled_running(t) ==
    /\ image_tasks[t].pc = "running"
    /\ LET q == image_tasks[t].queue
       IN  image_queues' = [image_queues EXCEPT ![q] = LeaveQueue(@)]
    /\ image_tasks' = [image_tasks EXCEPT ![t].pc = "cancelled"]
    /\ UNCHANGED notQueueVars

\* the task is cancelled while it waits for the semaphore (line 66)
cancelled_waiting(t) ==
    /\ image_tasks[t].pc = "waiting"
    /\ image_tasks' = [image_tasks EXCEPT ![t].pc = "cancelled"]
    /\ UNCHANGED image_queues
    /\ UNCHANGED notQueueVars

\* the steps of the calls of process that are under way
QueueProgress ==
    \E t \in ImageTasks :
        \/ semaphore_acquired(t)
        \/ func_returns(t)
        \/ func_raises(t)
        \/ cancelled_running(t)

QueueNext ==
    \/ \E max_concurrent \in 1..MaxConcurrent : set_queue_concurrency(max_concurrent)
    \/ \E t \in ImageTasks :
           \/ process_called(t)
           \/ semaphore_acquired(t)
           \/ func_returns(t)
           \/ func_raises(t)
           \/ cancelled_running(t)
           \/ cancelled_waiting(t)

-----------------------------------------------------------------------------
(* WebScraper.scrape_url (web_scraper.py): one site, crawled by one scraper *)

\* URLs of the site, each the list of the segments of its path
Home == <<>>
About == <<"about">>
Private == <<"private", "report">>

Urls == {Home, About, Private}

\* the links _extract_links finds in the page of a URL, in page order
Links(url) ==
    IF url = Home THEN <<About, Private>>
    ELSE IF url = About THEN <<Home, Private>>
    ELSE <<About>>

\* the <loc> entries scrape_sitemap reads from the site's sitemap
SitemapUrls == <<About, Private>>

\* robots.txt files the site may serve: none, or Disallow: /private
RobotsFiles == {{}, {<<"private">>}}

\* path.startswith(d)
StartsWith(path, d) ==
    /\ Len(d) <= Len(path)
    /\ \A i \in 1..Len(d) : path[i] = d[i]

\* WebScraper._is_disallowed, lines 1032-1035
is_disallowed(url, rules) == \E d \in rules : StartsWith(url, d)

\* what one session.get of _scrape_single_page meets: a page, a status of
\* (429, 503, 403), another non-2xx status, a bot protection page, a timeout
Statuses == {"200", "403", "404", "protection", "timeout"}

\* what page.goto and the steps after it meet in _scrape_with_playwright
PlaywrightOutcomes == {"page", "thin", "protection", "error"}

\* posts the WordPress REST or RSS endpoint returns, none when the site has neither
WpPosts == {<<>>, <<About>>}

\* the data of client.crawl: pages the managed API fetched; the service reads
\* robots.txt itself and the Disallow of RobotsFiles covers neither page
FirecrawlData == {<<>>, <<Home>>, <<Home, About>>}

NoItem == [url |-> Home, depth |-> -1]

\* the locals of scrape_url before the call, lines 185-188
NoCrawl ==
    [pc |-> "idle", robots |-> {}, to_visit |-> <<>>, visited |-> {},
     pages |-> <<>>, current |-> NoItem, attempt |-> 0, batch |-> <<>>,
     sitemap_tried |-> FALSE, gave_up |-> {}, slept |-> 0, root_blocked |-> "no"]

CrawlInit ==
    /\ scraper = [imported |-> FALSE, PLAYWRIGHT_AVAILABLE |-> FALSE,
                  FIRECRAWL_AVAILABLE |-> FALSE, playwright_domains |-> {},
                  firecrawl_domains |-> {}, crawls |-> 0]
    /\ site_robots = {}
    /\ crawl = NoCrawl
    /\ requests = <<>>

\* the host of every URL of the site, after _norm_host
base_host == "site"

\* module import, lines 44-63, and WebScraper.__init__, lines 80-83: the two
\* flags say whether playwright and firecrawl could be imported
import_web_scraper(playwright, firecrawl) ==
    /\ ~scraper.imported
    /\ scraper' = [scraper EXCEPT !.imported = TRUE,
                                  !.PLAYWRIGHT_AVAILABLE = playwright,
                                  !.FIRECRAWL_AVAILABLE = firecrawl]
    /\ UNCHANGED <<site_robots, crawl, requests>>
    /\ UNCHANGED notCrawlVars

\* to_visit.append((link, depth + 1, current_url)) for the links that are not
\* visited and not queued, lines 247-251 and 793-797
RECURSIVE QueueLinks(_, _, _, _)
QueueLinks(to_visit, links, visited, depth) ==
    IF links = <<>> THEN to_visit
    ELSE LET link == Head(links)
             queued == \E i \in 1..Len(to_visit) : to_visit[i].url = link
         IN QueueLinks(IF link \notin visited /\ ~queued
                          THEN Append(to_visit, [url |-> link, depth |-> depth + 1])
                          ELSE to_visit,
                       Tail(links), visited, depth)

\* scrape_url up to its first await, lines 128-188: the site serves one of
\* RobotsFiles during this crawl
WebScraper_scrape_url(robots_txt) ==
    /\ scraper.imported
    /\ crawl.pc \in {"idle", "returned"}
    /\ scraper.crawls < MaxCrawls
    /\ scraper' = [scraper EXCEPT !.crawls = @ + 1]
    /\ site_robots' = robots_txt
    /\ requests' = <<>>
    /\ crawl' = [NoCrawl EXCEPT
           !.pc = IF base_host \in scraper.firecrawl_domains
                     /\ scraper.FIRECRAWL_AVAILABLE THEN "firecrawl"
                  ELSE IF base_host \in scraper.playwright_domains
                     /\ scraper.PLAYWRIGHT_AVAILABLE THEN "playwright"
                  ELSE "robots",
           !.to_visit = <<[url |-> Home, depth |-> 0]>>]
    /\ UNCHANGED notCrawlVars

\* robots = await self._fetch_robots(session, url), lines 192-193 and 1001-1030
fetch_robots ==
    /\ crawl.pc = "robots"
    /\ crawl' = [crawl EXCEPT !.robots = site_robots, !.pc = "wp"]
    /\ UNCHANGED <<scraper, site_robots, requests>>
    /\ UNCHANGED notCrawlVars

\* WordPress discovery, lines 196-211: the posts of the REST or RSS endpoint
\* become pages, and the crawl returns when they fill max_pages
discover_wp_endpoints(posts) ==
    /\ crawl.pc = "wp"
    /\ LET wp_pages == SubSeq(posts, 1, Min(Len(posts), MaxPages))
           pages == crawl.pages \o [i \in 1..Len(wp_pages) |->
                                       [url |-> wp_pages[i], depth |-> 0]]
       IN crawl' = [crawl EXCEPT !.pages = pages,
                        !.pc = IF wp_pages # <<>> /\ Len(pages) >= MaxPages
                               THEN "returned" ELSE "crawl"]
    /\ UNCHANGED <<scraper, site_robots, requests>>
    /\ UNCHANGED notCrawlVars

\* the head of the crawl loop, lines 214-223, and what follows the loop when
\* it ends, lines 257 and 287
crawl_next ==
    /\ crawl.pc = "crawl"
    /\ IF crawl.to_visit = <<>> \/ Len(crawl.pages) >= MaxPages
       THEN crawl' = [crawl EXCEPT !.pc = IF crawl.pages = <<>> THEN "sitemap"
                                          ELSE "returned"]
       ELSE LET item == Head(crawl.to_visit)
                skip == \/ item.url \in crawl.visited
                        \/ item.depth > max_depth
                        \/ is_disallowed(item.url, crawl.robots)
            IN crawl' = [crawl EXCEPT !.to_visit = Tail(@),
                             !.current = IF skip THEN @ ELSE item,
                             !.attempt = 0,
                             !.pc = IF skip THEN "crawl" ELSE "get"]
    /\ UNCHANGED <<scraper, site_robots, requests>>
    /\ UNCHANGED notCrawlVars

\* one pass of the attempt loop of _scrape_single_page, lines 404-452:
\* "retry" when the loop goes on, "none" and "page" for what the call returns
scrape_single_page(attempt, status) ==
    IF status = "200" THEN "page"
    ELSE IF status \in {"404", "protection"} THEN "none"
    ELSE IF attempt + 1 < MaxAttempts THEN "retry"
    ELSE "none"

\* if self._is_bot_protection(html): self._playwright_domains.add(domain),
\* lines 426-430
FlagPlaywright(status) ==
    IF status = "protection"
    THEN [scraper EXCEPT !.playwright_domains = @ \cup {base_host}]
    ELSE scraper

\* the URLs that answered a request of _scrape_single_page with a non-2xx
\* status other than 403, 429 and 503 (lines 415-417: return None)
GaveUp(url, status) ==
    IF status = "404" THEN crawl.gave_up \cup {url} ELSE crawl.gave_up

\* random.uniform(a, b), in milliseconds: its two ends
uniform(a, b) == {a, b}

\* the sleep of one pass of the attempt loop of _scrape_single_page after its
\* request, lines 409-413: (2 ** attempt) + random.uniform(0.0, 1.5) for 403,
\* 429 and 503, none for a timeout or another exception (lines 447-450)
backoff(attempt, status) ==
    IF status = "403" THEN uniform(1000 * 2^attempt, 1000 * 2^attempt + 1500)
    ELSE {0}

\* the crawl is handed to no other fetcher
no_escalation(depth) == FALSE

\* lines 229-234: if page_data is None and depth == 0 ... if PLAYWRIGHT_AVAILABLE
escalate_to_playwright(depth) == depth = 0 /\ scraper.PLAYWRIGHT_AVAILABLE

\* lines 771-774 of _scrape_with_playwright: if depth == 0 and FIRECRAWL_AVAILABLE
escalate_to_firecrawl(depth) == depth = 0 /\ scraper.FIRECRAWL_AVAILABLE

\* a request of the link crawl, line 226, and what the loop does with the
\* outcome, lines 229-254; slept is the time slept since the request
crawl_get(status) ==
    /\ crawl.pc = "get"
    /\ requests' = Append(requests, [url |-> crawl.current.url, stage |-> "http"])
    /\ LET page_data == scrape_single_page(crawl.attempt, status)
           item == crawl.current
           flagged == FlagPlaywright(status)
       IN \E wait \in backoff(crawl.attempt, status) :
          CASE page_data = "retry" ->
                 /\ crawl' = [crawl EXCEPT !.attempt = @ + 1, !.slept = wait]
                 /\ scraper' = flagged
            [] page_data = "none" /\ escalate_to_playwright(item.depth) ->
                 /\ scraper' = [flagged EXCEPT !.playwright_domains = @ \cup {base_host}]
                 /\ crawl' = [crawl EXCEPT !.pc = "playwright",
                                  !.to_visit = <<[url |-> Home, depth |-> 0]>>,
                                  !.visited = {}, !.pages = <<>>,
                                  !.current = NoItem, !.attempt = 0,
                                  !.gave_up = GaveUp(item.url, status),
                                  !.slept = wait, !.root_blocked = "http"]
            [] page_data = "none" /\ ~escalate_to_playwright(item.depth) ->
                 /\ scraper' = [flagged EXCEPT !.playwright_domains = @ \cup {base_host}]
                 /\ \E pause \in uniform(crawl_delay + 1000, crawl_delay + 3000) :
                      crawl' = [crawl EXCEPT !.pc = "crawl", !.current = NoItem,
                                  !.attempt = 0,
                                  !.gave_up = GaveUp(item.url, status),
                                  !.slept = wait + pause,
                                  !.root_blocked = IF item.depth = 0 THEN "http" ELSE @]
            [] page_data = "page" ->
                 /\ scraper' = flagged
                 /\ \E pause \in uniform(crawl_delay, crawl_delay + 2500) :
                      crawl' = [crawl EXCEPT !.pc = "crawl", !.current = NoItem,
                                  !.attempt = 0, !.slept = pause,
                                  !.pages = Append(@, item),
                                  !.visited = @ \cup {item.url},
                                  !.to_visit =
                                      IF item.depth < max_depth
                                      THEN QueueLinks(@, Links(item.url),
                                               crawl.visited \cup {item.url}, item.depth)
                                      ELSE @]
    /\ UNCHANGED site_robots
    /\ UNCHANGED notCrawlVars

\* the sitemap fallback up to its batch, lines 257-275: sitemap_urls is what
\* the Sitemap of robots.txt or /sitemap.xml gave
sitemap_fallback(sitemap_urls) ==
    /\ crawl.pc = "sitemap"
    /\ crawl' = [crawl EXCEPT !.sitemap_tried = TRUE, !.pc = "batch",
                     !.batch = SubSeq(sitemap_urls, 1,
                                   Min(Len(sitemap_urls), Min(SitemapBatch, MaxPages)))]
    /\ UNCHANGED <<scraper, site_robots, requests>>
    /\ UNCHANGED notCrawlVars

\* for u in batch, lines 276-277, and the return of line 287 after the batch
batch_next ==
    /\ crawl.pc = "batch"
    /\ IF crawl.batch = <<>>
       THEN crawl' = [crawl EXCEPT !.pc = "returned"]
       ELSE LET u == Head(crawl.batch)
                skip == is_disallowed(u, crawl.robots)
            IN crawl' = [crawl EXCEPT !.batch = Tail(@),
                             !.current = IF skip THEN @ ELSE [url |-> u, depth |-> 1],
                             !.attempt = 0,
                             !.pc = IF skip THEN "batch" ELSE "batch_get"]
    /\ UNCHANGED <<scraper, site_robots, requests>>
    /\ UNCHANGED notCrawlVars

\* a request of the sitemap fallback, line 278, and lines 279-283 with the
\* sleep of line 283
batch_get(status) ==
    /\ crawl.pc = "batch_get"
    /\ requests' = Append(requests, [url |-> crawl.current.url, stage |-> "sitemap"])
    /\ scraper' = FlagPlaywright(status)
    /\ LET pd == scrape_single_page(crawl.attempt, status)
           pages == IF pd = "page" THEN Append(crawl.pages, crawl.current)
                    ELSE crawl.pages
       IN \E wait \in backoff(crawl.attempt, status) :
          IF pd = "retry"
          THEN crawl' = [crawl EXCEPT !.attempt = @ + 1, !.slept = wait]
          ELSE \E pause \in (IF Len(pages) >= MaxPages THEN {0}
                              ELSE uniform(crawl_delay, crawl_delay + 1500)) :
               crawl' = [crawl EXCEPT !.pages = pages, !.current = NoItem,
                             !.attempt = 0, !.slept = wait + pause,
                             !.gave_up = GaveUp(crawl.current.url, status),
                             !.pc = IF Len(pages) >= MaxPages THEN "returned"
                                    ELSE "batch"]
    /\ UNCHANGED site_robots
    /\ UNCHANGED notCrawlVars

\* _scrape_with_playwright: the loop ends, lines 704 and 806-811
playwright_returns ==
    /\ crawl.pc = "playwright"
    /\ crawl.to_visit = <<>> \/ Len(crawl.pages) >= MaxPages
    /\ crawl' = [crawl EXCEPT !.pc = "returned"]
    /\ UNCHANGED <<scraper, site_robots, requests>>
    /\ UNCHANGED notCrawlVars

\* _scrape_with_playwright: one pass of the loop, lines 705-804: the next
\* entry is passed over, or page.goto requests it
playwright_goto(outcome) ==
    /\ crawl.pc = "playwright"
    /\ crawl.to_visit # <<>> /\ Len(crawl.pages) < MaxPages
    /\ LET item == Head(crawl.to_visit)
           skip == item.url \in crawl.visited \/ item.depth > max_depth
       IN /\ requests' = IF skip THEN requests
                         ELSE Append(requests, [url |-> item.url, stage |-> "playwright"])
          /\ scraper' = IF ~skip /\ outcome = "protection"
                        THEN [scraper EXCEPT !.firecrawl_domains = @ \cup {base_host}]
                        ELSE scraper
          /\ CASE skip ->
                    crawl' = [crawl EXCEPT !.to_visit = Tail(@)]
               [] ~skip /\ outcome = "protection" /\ escalate_to_firecrawl(item.depth) ->
                    crawl' = [crawl EXCEPT !.pc = "firecrawl", !.to_visit = Tail(@),
                                     !.root_blocked = "browser"]
               [] ~skip /\ outcome = "page" ->
                    crawl' = [crawl EXCEPT
                        !.pages = Append(@, item),
                        !.visited = @ \cup {item.url},
                        !.to_visit =
                            IF item.depth < max_depth
                            THEN QueueLinks(Tail(@), Links(item.url),
                                     crawl.visited \cup {item.url}, item.depth)
                            ELSE Tail(@)]
               [] OTHER ->
                    crawl' = [crawl EXCEPT
                        !.to_visit = Tail(@),
                        !.root_blocked = IF outcome = "protection" /\ item.depth = 0
                                         THEN "browser" ELSE @]
    /\ UNCHANGED site_robots
    /\ UNCHANGED notCrawlVars

\* _scrape_with_firecrawl, lines 917-967: data is what client.crawl returned,
\* nothing when there is no client or the call raised
scrape_with_firecrawl(data) ==
    /\ crawl.pc = "firecrawl"
    /\ requests' = requests \o [i \in 1..Len(data) |->
                                   [url |-> data[i], stage |-> "firecrawl"]]
    /\ crawl' = [crawl EXCEPT !.pc = "returned",
                     !.pages = [i \in 1..Len(data) |-> [url |-> data[i], depth |-> 0]]]
    /\ UNCHANGED <<scraper, site_robots>>
    /\ UNCHANGED notCrawlVars

CrawlNext ==
    \/ \E playwright \in BOOLEAN, firecrawl \in BOOLEAN :
           import_web_scraper(playwright, firecrawl)
    \/ \E robots_txt \in RobotsFiles : WebScraper_scrape_url(robots_txt)
    \/ fetch_robots
    \/ \E posts \in WpPosts : discover_wp_endpoints(posts)
    \/ crawl_next
    \/ \E status \in Statuses : crawl_get(status)
    \/ \E sitemap_urls \in {<<>>, SitemapUrls} : sitemap_fallback(sitemap_urls)
    \/ batch_next
    \/ \E status \in Statuses : batch_get(status)
    \/ playwright_returns
    \/ \E outcome \in PlaywrightOutcomes : playwright_goto(outcome)
    \/ \E data \in FirecrawlData : scrape_with_firecrawl(data)

-----------------------------------------------------------------------------
(* SemanticCache._update_cache_index on the index of one knowledge base, run by
   several worker processes. Entries are named by the serial number of the
   write that appended them, so a smaller number is an older entry. *)

IndexInit ==
    /\ kb_index = <<>>
    /\ index_writer = [w \in Workers |-> [pc |-> "idle", cache_index |-> <<>>]]
    /\ index_writes = [begun |-> 0, appended |-> 0]

Serials(from, to) == [i \in 1..(to - from + 1) |-> from + i - 1]

\* cache_index[-1000:] when the list is longer than 1000
keep_last(entries) ==
    IF Len(entries) > IndexLimit
    THEN SubSeq(entries, Len(entries) - IndexLimit + 1, Len(entries))
    ELSE entries

\* n calls of cache_result made one after another, each finished before the
\* next begins: the index ends with the last IndexLimit of the n entries
cache_results_in_sequence ==
    /\ index_writes.appended = 0
    /\ index_writes.begun = 0
    /\ \E n \in (IndexLimit - 2)..(IndexLimit + 1) :
        /\ kb_index' = keep_last(Serials(1, n))
        /\ index_writes' = [begun |-> 0, appended |-> n]
    /\ UNCHANGED index_writer
    /\ UNCHANGED notIndexVars

\* index_data = self.redis_client.get(index_key); json.loads
index_get(w) ==
    /\ index_writer[w].pc = "idle"
    /\ index_writes.begun < MaxIndexWrites
    /\ index_writer' = [index_writer EXCEPT ![w] = [pc |-> "append", cache_index |-> kb_index]]
    /\ index_writes' = [index_writes EXCEPT !.begun = @ + 1]
    /\ UNCHANGED kb_index
    /\ UNCHANGED notIndexVars

\* cache_index.append(...); the trim; self.redis_client.setex(index_key, ...)
index_setex(w) ==
    /\ index_writer[w].pc = "append"
    /\ kb_index' = keep_last(Append(index_writer[w].cache_index, index_writes.appended + 1))
    /\ index_writes' = [index_writes EXCEPT !.appended = @ + 1]
    /\ index_writer' = [index_writer EXCEPT ![w] = [pc |-> "idle", cache_index |-> <<>>]]
    /\ UNCHANGED notIndexVars

IndexNext ==
    \/ cache_results_in_sequence
    \/ \E w \in Workers : index_get(w)
    \/ \E w \in Workers : index_setex(w)

-----------------------------------------------------------------------------
(* TextChunker.chunk_text (utils/chunking.py). A text is a sequence of
   paragraphs separated by blank lines; a paragraph is given by its number of
   words, the positions of the words that end a sentence, and the mark these
   words end with. A token is a word of the text with its mark. *)

SentenceStops(n) == {{}, {n}, {2, n}, {n - 1}}

Paragraphs ==
    {[n |-> n, stops |-> stops, mark |-> mark] :
        n \in ParagraphLens, stops \in UNION {SentenceStops(k) : k \in ParagraphLens},
        mark \in {".", "?"}}

WellFormed(para) ==
    /\ para.stops \in SentenceStops(para.n)
    /\ para.stops = {} => para.mark = "."

Texts ==
    {text \in UNION {[1..k -> Paragraphs] : k \in 1..MaxParagraphs} :
        \A i \in 1..Len(text) : WellFormed(text[i])}

\* para.split() of paragraph p of the text
Words(p, para) ==
    [i \in 1..para.n |->
        [p |-> p, i |-> i, mark |-> IF i \in para.stops THEN para.mark ELSE ""]]

NoChunks == [text |-> <<>>, chunks |-> <<>>]

ChunkerInit == chunker = NoChunks

\* re.split(r'[.!?]+\s+', ' '.join(chunk_words)): the positions of the words
\* that end a sentence and have a word after them
SentenceEnds(chunk_words) ==
    {j \in 1..(Len(chunk_words) - 1) : chunk_words[j].mark # ""}

\* '. '.join(sentences[:-1]) + '.': the words up to the last sentence end,
\* every sentence now ending with a full stop
complete_sentences(chunk_words, ends) ==
    LET last == CHOOSE j \in ends : \A k \in ends : k <= j
    IN  [j \in 1..last |->
            IF j \in ends
            THEN [chunk_words[j] EXCEPT !.mark = "."]
            ELSE chunk_words[j]]

\* _split_paragraph: the loop from position `start` on
RECURSIVE split_paragraph(_, _)
split_paragraph(words, start) ==
    IF start >= Len(words) THEN <<>>
    ELSE LET end == start + chunk_size
             chunk_words == SubSeq(words, start + 1, Min(end, Len(words)))
             ends == SentenceEnds(chunk_words)
             chunk_text_ == IF ends # {}
                            THEN complete_sentences(chunk_words, ends)
                            ELSE chunk_words
         IN  <<chunk_text_>> \o split_paragraph(words, end - chunk_overlap)

\* _split_by_paragraphs: the paragraphs of more than MinWords words, as word lists
RECURSIVE split_by_paragraphs(_, _)
split_by_paragraphs(text, p) ==
    IF p > Len(text) THEN <<>>
    ELSE (IF text[p].n > MinWords THEN <<Words(p, text[p])>> ELSE <<>>)
         \o split_by_paragraphs(text, p + 1)

RECURSIVE ChunkParagraphs(_)
ChunkParagraphs(paragraphs) ==
    IF paragraphs = <<>> THEN <<>>
    ELSE LET para == Head(paragraphs)
         IN  (IF Len(para) <= chunk_size THEN <<para>> ELSE split_paragraph(para, 0))
             \o ChunkParagraphs(Tail(paragraphs))

chunk_text(text) ==
    IF text = <<>> THEN <<>> ELSE ChunkParagraphs(split_by_paragraphs(text, 1))

\* text_processor: chunks = self.chunker.chunk_text(cleaned_text); one call
\* is followed in a behaviour, the chunker keeps nothing between calls
chunk_text_returns ==
    /\ chunker = NoChunks
    /\ \E text \in Texts : chunker' = [text |-> text, chunks |-> chunk_text(text)]
    /\ UNCHANGED notChunkerVars

ChunkerNext == chunk_text_returns

-----------------------------------------------------------------------------
(* ScrapeSyncService.run_sync_loop in one worker process, over more sources
   than one cycle takes, and lifespan shutting the loop down (main.py).
   CancelledError derives from BaseException, so neither `except Exception`
   of sync_source and run_sync_loop catches it. *)

SchedSources == 1..MaxSources

NoRow == [present |-> FALSE, auto_sync_enabled |-> FALSE, sync_status |-> "idle",
          next_sync_at |-> None, last_error |-> FALSE]

NoCycle == [pc |-> "sleeping", running |-> TRUE, sources |-> <<>>, synced |-> <<>>,
            selected_at |-> 0, shutdown |-> FALSE]

ScheduleInit ==
    /\ source_rows = [s \in SchedSources |-> NoRow]
    /\ failing_sites = {}
    /\ clock = 0
    /\ scheduler = NoCycle

\* the rows are in the table
Registered == \A s \in SchedSources : source_rows[s].present

\* next_sync_at of the sources when the service starts: never set; or, by
\* turns, never set, set and elapsed, one interval ahead
NextSyncPatterns ==
    { [s \in SchedSources |-> None],
      [s \in SchedSources |-> (s % 3) - 1] }

\* the sites that cannot be scraped
FailingSets == {{}, 1..SyncLimit}

\* the rows as the service finds them: sources registered by scrape_url or by
\* the management API, auto-sync switched off for some, some left in status
\* syncing by a worker that was stopped or being synced by another worker
sources_registered ==
    /\ ~Registered
    /\ \E next_sync \in NextSyncPatterns, others \in BOOLEAN :
         source_rows' =
             [s \in SchedSources |->
                 [present |-> TRUE, auto_sync_enabled |-> ~(others /\ s = 2),
                  sync_status |-> IF others /\ s = 3 THEN "syncing" ELSE "idle",
                  next_sync_at |-> next_sync[s], last_error |-> FALSE]]
    /\ \E failing \in FailingSets : failing_sites' = failing
    /\ UNCHANGED <<clock, scheduler>>
    /\ UNCHANGED notScheduleVars

\* time passes
clock_ticks ==
    /\ clock < MaxClock
    /\ clock' = clock + 1
    /\ UNCHANGED <<source_rows, failing_sites, scheduler>>
    /\ UNCHANGED notScheduleVars

\* WHERE auto_sync_enabled = 1 AND sync_status != 'syncing'
\*   AND (next_sync_at IS NULL OR next_sync_at <= NOW())
due_for_sync(row, now) ==
    /\ row.present
    /\ row.auto_sync_enabled
    /\ row.sync_status # "syncing"
    /\ (row.next_sync_at = None \/ row.next_sync_at <= now)

\* the ids of the rows the WHERE clause keeps
DueIds(rows, now) == {s \in SchedSources : due_for_sync(rows[s], now)}

\* ORDER BY next_sync_at ASC: row o comes before row s; NULL sorts first, rows
\* with the same value come in the order of their ids
sorts_before(rows, o, s) ==
    \/ rows[o].next_sync_at < rows[s].next_sync_at
    \/ /\ rows[o].next_sync_at = rows[s].next_sync_at
       /\ o < s

\* the k-th row of the ordered result, as a dictionary
fetched_row(rows, now, k) ==
    LET s == CHOOSE s \in DueIds(rows, now) :
                 Cardinality({o \in DueIds(rows, now) : sorts_before(rows, o, s)}) = k - 1
    IN  [id |-> s] @@ rows[s]

\* the whole result set, without LIMIT
no_limit(n) == n

\* LIMIT 10 on a result set of n rows
limit(n) == Min(n, SyncLimit)

\* get_sources_due_for_sync: cursor.fetchall() of the SELECT
sources_due_for_sync(rows, now) ==
    [k \in 1..limit(Cardinality(DueIds(rows, now))) |-> fetched_row(rows, now, k)]

\* run_sync_loop, lines 365-367: asyncio.sleep is over, `while self._running`,
\* sources = await self.get_sources_due_for_sync()
scheduler_cycle_begins ==
    /\ scheduler.pc = "sleeping"
    /\ Registered
    /\ scheduler' =
           IF scheduler.running
           THEN [scheduler EXCEPT !.pc = "cycle",
                                  !.sources = sources_due_for_sync(source_rows, clock),
                                  !.synced = <<>>,
                                  !.selected_at = clock]
           ELSE [scheduler EXCEPT !.pc = "stopped"]
    /\ UNCHANGED <<source_rows, failing_sites, clock>>
    /\ UNCHANGED notScheduleVars

\* the source the for loop of run_sync_loop is at
CurrentSource == scheduler.sources[Len(scheduler.synced)].id

\* run_sync_loop line 372 and sync_source lines 197-202: the next source of the
\* cycle is marked syncing
scheduler_sync_begins ==
    /\ scheduler.pc = "cycle"
    /\ Len(scheduler.synced) < Len(scheduler.sources)
    /\ LET s == scheduler.sources[Len(scheduler.synced) + 1].id
       IN  /\ source_rows' = [source_rows EXCEPT ![s].sync_status = "syncing"]
           /\ scheduler' = [scheduler EXCEPT !.pc = "syncing",
                                             !.synced = Append(@, s)]
    /\ UNCHANGED <<failing_sites, clock>>
    /\ UNCHANGED notScheduleVars

\* sync_source lines 207-324: no changes, or the pages are processed; the
\* source becomes idle and next_sync_at moves one interval ahead
scheduler_sync_returns ==
    /\ scheduler.pc = "syncing"
    /\ CurrentSource \notin failing_sites
    /\ \E has_changes \in BOOLEAN :
         source_rows' = [source_rows EXCEPT
                            ![CurrentSource].sync_status = "idle",
                            ![CurrentSource].next_sync_at = clock + 1,
                            ![CurrentSource].last_error =
                                IF has_changes THEN FALSE ELSE @]
    /\ scheduler' = [scheduler EXCEPT !.pc = "cycle"]
    /\ UNCHANGED <<failing_sites, clock>>
    /\ UNCHANGED notScheduleVars

\* the except block without its UPDATE: the row stays as it is
leave_syncing(row) == row

\* sync_source lines 328-332: SET sync_status = 'error', last_error = str(e)
mark_error(row) == [row EXCEPT !.sync_status = "error", !.last_error = TRUE]

\* sync_source lines 326-334 and run_sync_loop lines 374-375: check_for_changes
\* raises; the source is marked, the exception is raised again and logged by
\* the loop, which goes on to the next source
scheduler_sync_raises ==
    /\ scheduler.pc = "syncing"
    /\ CurrentSource \in failing_sites
    /\ source_rows' = [source_rows EXCEPT ![CurrentSource] = mark_error(@)]
    /\ scheduler' = [scheduler EXCEPT !.pc = "cycle"]
    /\ UNCHANGED <<failing_sites, clock>>
    /\ UNCHANGED notScheduleVars

\* run_sync_loop line 380: the for loop is over, await asyncio.sleep(...)
scheduler_sleeps ==
    /\ scheduler.pc = "cycle"
    /\ Len(scheduler.synced) = Len(scheduler.sources)
    /\ scheduler' = [scheduler EXCEPT !.pc = "sleeping"]
    /\ UNCHANGED <<source_rows, failing_sites, clock>>
    /\ UNCHANGED notScheduleVars

\* a shutdown that only clears the flag: the task runs on until it reads it
stop_sync_loop_only(task) == [task EXCEPT !.running = FALSE, !.shutdown = TRUE]

\* lifespan, lines 74-80: stop_sync_loop(), sync_task.cancel(), await sync_task.
\* CancelledError is thrown into the task where it is suspended (asyncio.sleep,
\* or an await inside sync_source); only the finally blocks run, the task ends
cancel_and_await(task) ==
    [task EXCEPT !.running = FALSE, !.pc = "cancelled", !.shutdown = TRUE]

lifespan_shutdown ==
    /\ ~scheduler.shutdown
    /\ Registered
    /\ scheduler' = cancel_and_await(scheduler)
    /\ UNCHANGED <<source_rows, failing_sites, clock>>
    /\ UNCHANGED notScheduleVars

\* the steps of the run_sync_loop task; the position of the task enables at
\* most one of them
SchedulerStep ==
    \/ scheduler_cycle_begins
    \/ scheduler_sync_begins
    \/ scheduler_sync_returns
    \/ scheduler_sync_raises
    \/ scheduler_sleeps

\* the service while it runs
ScheduleRuns ==
    \/ sources_registered
    \/ clock_ticks
    \/ SchedulerStep

ScheduleNext ==
    \/ ScheduleRuns
    \/ lifespan_shutdown

-----------------------------------------------------------------------------
(* The embeddings of the chunks of one document, from
   DocumentJobProcessor._generate_embeddings_batched to the vector keys
   VectorStore.store_document writes. A chunk is named by its position in the
   document; its chunk_id is that position. *)

\* chunk contents: empty, blank, and two texts
Contents == {"", " ", "a", "b"}

ChunkLists == UNION {[1..n -> Contents] : n \in 1..MaxBatchChunks}

\* the vector the provider computes for a text
Embedding(text) == <<"embedding of", text>>

NoEmbeddings == [pc |-> "idle", chunks |-> <<>>, embeddings |-> <<>>, vectors |-> <<>>]

EmbedderInit == embedder = NoEmbeddings

\* t and t.strip()
NotBlank(t) == t \notin {"", " "}

\* generate_batch_embeddings: the blank texts are filtered out, the others are
\* embedded in their order
generate_batch_embeddings(texts) ==
    LET kept == SelectSeq(texts, NotBlank)
    IN  [k \in 1..Len(kept) |-> Embedding(kept[k])]

\* for chunk, embedding_vector in zip(batch, batch_embedding_vectors): the
\* pairs up to the end of the shorter list; a chunk is <<chunk_id, content>>
zip_embeddings(batch, batch_embedding_vectors) ==
    [j \in 1..Min(Len(batch), Len(batch_embedding_vectors)) |->
        [chunk_id |-> batch[j].chunk_id, embedding |-> batch_embedding_vectors[j]]]

\* the per-chunk fallback: generate_embedding(chunk["content"]) for the chunks
\* of the batch whose call does not raise; it raises for a blank text
fallback_embeddings(batch, ok) ==
    LET Embedded(chunk) == chunk.chunk_id \in ok /\ NotBlank(chunk.content)
        done == SelectSeq(batch, Embedded)
    IN  [j \in 1..Len(done) |->
            [chunk_id |-> done[j].chunk_id, embedding |-> Embedding(done[j].content)]]

\* the loop of _generate_embeddings_batched from index i on; the batches in
\* `raising` fall back to per-chunk calls, of which those for `ok` succeed
RECURSIVE generate_embeddings_batched(_, _, _, _)
generate_embeddings_batched(chunks, i, raising, ok) ==
    IF i >= Len(chunks) THEN <<>>
    ELSE LET batch == SubSeq(chunks, i + 1, Min(i + batch_size, Len(chunks)))
             batch_texts == [j \in 1..Len(batch) |-> batch[j].content]
         IN  (IF i \in raising
              THEN fallback_embeddings(batch, ok)
              ELSE zip_embeddings(batch, generate_batch_embeddings(batch_texts)))
             \o generate_embeddings_batched(chunks, i + batch_size, raising, ok)

\* process_document_background lines 381-387: the embeddings of the chunks
embeddings_generated ==
    /\ embedder.pc = "idle"
    /\ \E contents \in ChunkLists, batch_raises \in BOOLEAN :
         \E ok \in (IF batch_raises THEN SUBSET (1..Len(contents)) ELSE {{}}) :
            LET chunks == [k \in 1..Len(contents) |->
                               [chunk_id |-> k, content |-> contents[k]]]
            IN  embedder' =
                    [pc |-> "embedded", chunks |-> chunks,
                     embeddings |-> generate_embeddings_batched(
                                        chunks, 0, IF batch_raises THEN {0} ELSE {}, ok),
                     vectors |-> <<>>]
    /\ UNCHANGED notEmbedderVars

\* store_document, lines 93-135: embedding_map by chunk_id; for every chunk
\* that has an entry, the chunk row and the vector key with the embedding and
\* the content of the chunk
store_document_vectors ==
    /\ embedder.pc = "embedded"
    /\ LET embedding_map(chunk_id) ==
               {e \in SeqRange(embedder.embeddings) : e.chunk_id = chunk_id}
           HasEmbedding(chunk) == embedding_map(chunk.chunk_id) # {}
           stored == SelectSeq(embedder.chunks, HasEmbedding)
       IN  embedder' =
               [embedder EXCEPT
                   !.pc = "stored",
                   !.vectors =
                       [k \in 1..Len(stored) |->
                           [chunk_id |-> stored[k].chunk_id,
                            embedding |-> (CHOOSE e \in embedding_map(stored[k].chunk_id) :
                                               TRUE).embedding,
                            content |-> stored[k].content]]]
    /\ UNCHANGED notEmbedderVars

EmbedderNext ==
    \/ embeddings_generated
    \/ store_document_vectors

-----------------------------------------------------------------------------
(* VectorStore.search with SemanticCache in one worker process, followed over
   time: the entries expire (SETEX), and documents are deleted. *)

\* the document a chunk belongs to (yovo_tbl_aiva_document_chunks.document_id)
DocumentOf(c) == IF c = "c3" THEN "d2" ELSE "d1"

CachedDocs == {"d1", "d2"}

\* the clock advances by half a TTL
TimeStep == ttl \div 2

NoCachedEntry == [query |-> "none", results |-> <<>>, created_at |-> 0,
                  expires_at |-> 0]

NoAnswer == [query |-> "none", text_results |-> <<>>, cached |-> FALSE,
             cache_age_seconds |-> 0]

ExpiryInit ==
    /\ kb_keys = SeqRange(AllChunks)
    /\ cached_entries = [q \in Queries |-> NoCachedEntry]
    /\ entry_index = [keys |-> {}, expires_at |-> 0]
    /\ redis_time = 0
    /\ answer = NoAnswer
    /\ deleted_docs = {}

\* a key written with SETEX is gone once its time to live has elapsed
Expired(expires_at) == redis_time >= expires_at

\* self.redis_client.setex(key, seconds, value)
setex(seconds) == redis_time + seconds

\* get_cached_result, lines 105-152: the keys of the index whose entry is
\* there, and among them one of the largest similarity, if it reaches the
\* threshold
cached_hits(q) ==
    LET keys == IF Expired(entry_index.expires_at) THEN {} ELSE entry_index.keys
        present == {e \in keys : ~Expired(cached_entries[e].expires_at)}
        best == {e \in present :
                    \A o \in present : QuerySimilarity(q, e) >= QuerySimilarity(q, o)}
    IN  {e \in best : QuerySimilarity(q, e) >= similarity_threshold}

\* search, lines 238-306: the similarity of every key of the knowledge base,
\* sorted, cut to top_k
dense_results(q, top_k) ==
    LET InKb(c) == c \in kb_keys
        keys == SelectSeq(AllChunks, InKb)
    IN  Take(SortDesc([i \in 1..Len(keys) |->
                          [chunk_id |-> keys[i], score |-> ChunkScore(q, keys[i])]]),
             top_k)

\* search with search_type "text", lines 186-236: a hit rewrites the entry
\* with a new time to live (semantic_cache.py lines 159-166) and returns its
\* results
search_text_hit ==
    /\ \E q \in Queries :
         \E e \in cached_hits(q) :
            /\ cached_entries' =
                   [cached_entries EXCEPT ![e].expires_at = setex(ttl)]
            /\ answer' = [query |-> q,
                          text_results |-> cached_entries[e].results,
                          cached |-> TRUE,
                          cache_age_seconds |-> redis_time - cached_entries[e].created_at]
    /\ UNCHANGED <<kb_keys, entry_index, redis_time, deleted_docs>>
    /\ UNCHANGED notExpiryVars

\* search with search_type "text", lines 238-355: a miss runs the dense search,
\* and results that are not empty are cached (cache_result, lines 207-236, and
\* _update_cache_index, which gives the index twice the time to live)
search_text_miss ==
    /\ \E q \in Queries, top_k \in {MaxTopK} :
         LET results == dense_results(q, top_k)
         IN  /\ cached_hits(q) = {}
             /\ answer' = [query |-> q, text_results |-> results, cached |-> FALSE,
                           cache_age_seconds |-> 0]
             /\ IF Len(results) > 0
                THEN /\ cached_entries' =
                            [cached_entries EXCEPT ![q] =
                                [query |-> q, results |-> results,
                                 created_at |-> redis_time,
                                 expires_at |-> setex(ttl)]]
                     /\ entry_index' =
                            [keys |-> (IF Expired(entry_index.expires_at)
                                       THEN {} ELSE entry_index.keys) \cup {q},
                             expires_at |-> setex(ttl * 2)]
                ELSE UNCHANGED <<cached_entries, entry_index>>
    /\ UNCHANGED <<kb_keys, redis_time, deleted_docs>>
    /\ UNCHANGED notExpiryVars

\* delete_document, lines 436-469: the vector keys and the chunk rows of the
\* document are deleted; the semantic cache is not touched
delete_document_returns ==
    /\ \E d \in CachedDocs \ deleted_docs :
         /\ kb_keys' = {c \in kb_keys : DocumentOf(c) # d}
         /\ deleted_docs' = deleted_docs \cup {d}
    /\ UNCHANGED <<cached_entries, entry_index, redis_time, answer>>
    /\ UNCHANGED notExpiryVars

time_passes ==
    /\ redis_time < MaxTicks * TimeStep
    /\ redis_time' = redis_time + TimeStep
    /\ UNCHANGED <<kb_keys, cached_entries, entry_index, answer, deleted_docs>>
    /\ UNCHANGED notExpiryVars

ExpiryNext ==
    \/ search_text_hit
    \/ search_text_miss
    \/ delete_document_returns
    \/ time_passes

-----------------------------------------------------------------------------
(* Specifications *)

Init ==
    /\ JobInit /\ StoreInit /\ CacheInit /\ SearchInit /\ SyncInit /\ QueueInit
    /\ CrawlInit /\ IndexInit /\ ChunkerInit /\ ScheduleInit
    /\ EmbedderInit /\ ExpiryInit

\* one job run after another
Spec == Init /\ [][Next]_vars

\* store and delete operations on the catalog and Redis
SpecStore == Init /\ [][StoreNext]_vars

\* text searches of the worker processes on one knowledge base
SpecCache == Init /\ [][CacheNext]_vars

\* enhanced searches, one at a time
SpecSearch == Init /\ [][SearchNext]_vars

\* scrapes, remote changes and the sync loops of the worker processes
SpecSync == Init /\ [][SyncNext]_vars

\* image embedding calls and changes of the queue concurrency
SpecQueue == Init /\ [][QueueNext]_vars

\* the image queue when the event loop keeps running the coroutines that can
\* take a step: a task that can acquire the semaphore does, and func ends
SpecQueueFair == Init /\ [][QueueNext]_vars /\ WF_vars(QueueProgress)

\* crawls of one site, one after another
SpecCrawl == Init /\ [][CrawlNext]_vars

\* the writes of one full cache index
SpecIndex == Init /\ [][IndexNext]_vars

\* calls of TextChunker.chunk_text
SpecChunker == Init /\ [][ChunkerNext]_vars

\* the embeddings of one document, generated and stored
SpecEmbedder == Init /\ [][EmbedderNext]_vars

\* the cached search of one worker over time, with deletions
SpecExpiry == Init /\ [][ExpiryNext]_vars

\* the scheduler from service start to shutdown
SpecSchedule == Init /\ [][ScheduleNext]_vars

\* the scheduler of a service that is not stopped: the event loop runs the
\* task whenever it can continue, and every sync_source call ends
SpecScheduleFair ==
    /\ Init
    /\ [][ScheduleRuns]_vars
    /\ WF_vars(SchedulerStep)

-----------------------------------------------------------------------------
(* Properties of the job runs, checked under Spec *)

\* run r is the only background task started so far
OnlyRun(r) == \A o \in Runs \ {r} : pc[o] = "idle"

RunEnded(r) == pc[r] \in {"done", "escaped"}

\* C1: once the job status is completed or failed, no later step of that job
\* run changes it (stated for a run that has the job record to itself).
C1_TerminalStatusNeverChanges ==
    [][\A r \in Runs :
          (/\ OnlyRun(r)
           /\ job.status \in {STATUS_COMPLETED, STATUS_FAILED}
           /\ pc'[r] # pc[r])
          => job'.status = job.status]_vars

\* C4: a run whose try body raised ends with the job status failed, the
\* catalog error message at most 1000 characters long and the temp directory
\* removed (stated for a run that has the document to itself).
C4_ExceptionEndsFailedAndClean ==
    \A r \in Runs :
        (OnlyRun(r) /\ RunEnded(r) /\ raised[r]) =>
            /\ job.status = STATUS_FAILED
            /\ doc_error_len <= ErrorMessageLimit
            /\ ~temp_dir

\* while one run has the job record to itself, every write keeps or raises
\* the progress
SingleRunProgressNeverDecreases ==
    [][(\E r \in Runs :
           /\ pc[r] # "idle"
           /\ \A o \in Runs \ {r} : pc[o] = "idle" /\ pc'[o] = "idle")
          => job'.progress >= job.progress]_vars

\* C5: the progress stored in the job record never decreases from one write
\* of the background processing to the next; create_job, which starts a new
\* record at 0, is not such a write.
C5_ProgressNeverDecreases ==
    [][(\A r \in Runs : pc[r] = "idle" => pc'[r] = "idle")
          => job'.progress >= job.progress]_vars

\* C19: when some chunks of a document have no embedding after the per-chunk
\* fallback, the job still becomes completed and the chunk count it then
\* reports is the number of chunks that have an embedding, which is the number
\* store_document persisted (the count written at line 394), not the number
\* of chunks the text was cut into.
C19_CompletedReportsStoredChunkCount ==
    [][\A r \in Runs :
          (/\ OnlyRun(r)
           /\ pc[r] = "completing" /\ pc'[r] = "cleanup"
           /\ job.processed_chunks < job.total_chunks) =>
              /\ job'.status = STATUS_COMPLETED
              /\ job'.processed_chunks = job.processed_chunks]_vars

\* the stages of a job in their order
StatusOrder == <<STATUS_QUEUED, STATUS_PROCESSING, STATUS_CHUNKING, STATUS_EMBEDDING,
                 STATUS_STORING, STATUS_COMPLETED>>

StageOf(status) == CHOOSE i \in 1..Len(StatusOrder) : StatusOrder[i] = status

\* status `to` may be written over status `from`: the same status again, the
\* next stage, or failed; nothing follows failed
StatusFollows(from, to) ==
    \/ to = from
    \/ /\ from # STATUS_FAILED
       /\ \/ to = STATUS_FAILED
          \/ StageOf(to) = StageOf(from) + 1

\* a step of the background processing; create_job, which starts a new
\* job, is not one
ProcessingStep == \A r \in Runs : pc[r] = "idle" => pc'[r] = "idle"

\* C22: the statuses a job takes are a prefix of queued, processing, chunking,
\* embedding, storing, completed, optionally followed by failed: every write
\* of the background processing keeps the status, moves it to the next stage,
\* or sets failed, and failed is never left.
C22_StatusFollowsStageOrder ==
    [][ProcessingStep => StatusFollows(job.status, job'.status)]_vars

\* the same for a run that has the job record to itself
SingleRunStatusFollowsStageOrder ==
    [][(\E r \in Runs :
           /\ pc[r] # "idle"
           /\ \A o \in Runs \ {r} : pc[o] = "idle" /\ pc'[o] = "idle")
          => StatusFollows(job.status, job'.status)]_vars

\* the background runs of the document that have been started and have not ended
RunsInProgress == {r \in Runs : pc[r] # "idle" /\ ~RunEnded(r)}

\* C29: at most one background ingestion run is in progress for the
\* document_id at any time: an upload or reprocess request for a document
\* whose job is still in flight starts no second run beside the first.
C29_OneRunPerDocument == Cardinality(RunsInProgress) <= 1

-----------------------------------------------------------------------------
(* Properties of the vector store, checked under SpecStore *)

ChunkIds(rows) == {r.chunk_id : r \in rows}

\* C2: every chunk row has exactly one vector key vector:{kb_id}:{chunk_id} and
\* every vector key has its chunk row, after any sequence of stores, deletes
\* and failed stores.
C2_RowsAndVectorsCoincide == ChunkIds(chunk_rows) = ChunkIds(vectors)

\* C3: when delete_document has returned for a document, no chunk row and no
\* vector key of that document remains.
C3_DeleteLeavesNothing ==
    \A d \in Docs :
        last_op = [op |-> "delete", doc |-> d] =>
            RowsOf(d) = {} /\ VectorsOf(d) = {}

\* C6: when the Document row was removed while its job was in flight, the
\* job's store writes nothing: afterwards there is no Document row, no chunk
\* row and no vector of that document.
C6_StoreSkipsDeletedDocument ==
    \A d \in Docs :
        (last_op = [op |-> "store", doc |-> d] /\ deleted_in_flight[d]) =>
            d \notin documents /\ RowsOf(d) = {} /\ VectorsOf(d) = {}

\* C18: when the job of a reprocess has completed, the chunk rows and the
\* vector keys of the document are exactly those the new run stored; nothing an
\* earlier run of the document wrote, completed or failed, remains.
C18_ReprocessLeavesOnlyNewRun ==
    [][\A d \in Docs :
          (inflight[d].reprocess /\ last_op' = [op |-> "store", doc |-> d]) =>
              /\ ChunkIds(RowsOf(d))' = inflight[d].embedded
              /\ ChunkIds(VectorsOf(d))' = inflight[d].embedded]_vars

NoJobInFlight == \A d \in Docs : ~inflight[d].active

\* C7: with no job in flight, the number of vector keys of the knowledge base
\* equals the number of its chunk rows.
C7_VectorCountEqualsChunkCount ==
    NoJobInFlight => Cardinality(vectors) = Cardinality(chunk_rows)

-----------------------------------------------------------------------------
(* Properties of the cached search, checked under SpecCache *)

\* C8: the access_count of a cache entry equals the number of hits served
\* from it since it was created, under every interleaving of the lookups of
\* the worker processes.
C8_AccessCountEqualsHits ==
    \A q \in Queries :
        cache[q] # NoEntry => cache[q].access_count = hits_served[q]

\* C9: a search response holds at most top_k text results, top_k being that
\* of the request answered, whether it comes from the dense search or from
\* the semantic cache.
C9_AtMostTopKResults ==
    \A w \in Workers :
        response[w].served => Len(response[w].text_results) <= response[w].top_k

\* result ids of a response, in order
ResultIds(r) == [i \in 1..Len(r.text_results) |-> r.text_results[i].chunk_id]

\* C11: when a text query is asked again after a response to the identical
\* query has been returned, the second response has the same result ids in the
\* same order and carries cached = true with cache_similarity 1.0.
C11_RepeatedQueryServedFromCache ==
    \A w \in Workers :
        (/\ response[w].served
         /\ response[w].search_type = "text"
         /\ local[w].previous.served)
        => /\ response[w].cached
           /\ response[w].cache_similarity = 100
           /\ ResultIds(response[w]) = ResultIds(local[w].previous)

\* entries of the knowledge base that exist in Redis
LiveEntries == {e \in Queries : cache[e] # NoEntry}

\* C12: a cache lookup is a hit exactly when some live entry of the knowledge
\* base and search type has cosine similarity to the query at or above the
\* threshold, and the entry returned is one of maximum similarity.
C12_HitIffLiveEntryAboveThreshold ==
    [][\A w \in Workers :
          (wpc[w] = "idle" /\ wpc'[w] # "idle" /\ local'[w].search_type = "text")
          => LET q == local'[w].query
                 similar == {e \in LiveEntries :
                               QuerySimilarity(q, cache[e].query) >= similarity_threshold}
             IN  /\ wpc'[w] = "hit" <=> similar # {}
                 /\ wpc'[w] = "hit" =>
                       \A e \in LiveEntries :
                           local'[w].best_similarity >= QuerySimilarity(q, cache[e].query)
      ]_vars

-----------------------------------------------------------------------------
(* Properties of the scrape sync, checked under SpecSync *)

\* loop l ends a sync_source call on source s without an exception
SyncReturns(l, s) ==
    /\ loop_pc[l] = "syncing"
    /\ loop_pc'[l] = "cycle"
    /\ s = Head(loop_sources[l])
    /\ sync_result'.status # "error"

\* C13: a sync of a source whose page is the same as at the previous scrape or
\* sync reports new = 0, changed = 0, removed = 0 and leaves every document
\* with its chunks and vectors as it was.
C13_UnchangedSyncWritesNothing ==
    [][\A l \in SyncLoops, s \in Sources :
          (/\ SyncReturns(l, s)
           /\ remote[s] # 0
           /\ scrape_sources[s].last_scraped = remote[s])
          => /\ sync_result'.new = 0
             /\ sync_result'.changed = 0
             /\ sync_result'.removed = 0
             /\ sync_documents' = sync_documents
      ]_vars

\* C14: when a sync finds a page whose content hash differs from the hash
\* stored on the page's document, the document keeps its id, its chunks and
\* vectors become those of the new content, and the sync counts the page as
\* changed.
C14_ChangedPageReingestedInPlace ==
    [][\A l \in SyncLoops, s \in Sources :
          \A d \in ExistingDocs(s) :
              (/\ SyncReturns(l, s)
               /\ remote[s] # 0
               /\ d.source_url = s
               /\ d.content # remote[s]
               /\ \A o \in ExistingDocs(s) :
                      o.content_hash # compute_content_hash(remote[s]))
              => /\ sync_result'.changed >= 1
                 /\ ExistingDocs(s)' =
                        {[o EXCEPT !.content = remote[s],
                                   !.content_hash = compute_content_hash(remote[s])] :
                             o \in ExistingDocs(s)}
      ]_vars

\* the sources inside a sync_source call
SourcesBeingSynced ==
    {Head(loop_sources[l]) : l \in {k \in SyncLoops : loop_pc[k] = "syncing"}}

\* C15: at most one scrape source is being synced at any time.
C15_OneSourceSyncedAtATime == Cardinality(SourcesBeingSynced) <= 1

-----------------------------------------------------------------------------
(* Properties of the image queue, checked under SpecQueue *)

\* the calls of process that are executing func
ExecutingTasks == {t \in ImageTasks : image_tasks[t].pc = "running"}

\* C16: the number of image embedding tasks executing at once in the process
\* is at most the configured concurrency, which is the max_concurrent of
\* _global_queue, also after set_queue_concurrency has replaced the queue.
C16_ExecutingAtMostConfigured ==
    Cardinality(ExecutingTasks) <= image_queues[Len(image_queues)].max_concurrent

\* C39: every image task run through the queue clears the accelerator cache
\* (_cleanup_memory) when it exits, whether its processing function returns or
\* raises.
C39_EveryExitClearsCache ==
    \A t \in ImageTasks :
        image_tasks[t].pc \in {"returned", "raised"} => image_tasks[t].cleaned

\* the tasks inside the semaphore-guarded section of queue q
InSection(q) ==
    {t \in ImageTasks : image_tasks[t].pc = "running" /\ image_tasks[t].queue = q}

\* C40: in every image queue, active_tasks equals the number of tasks inside
\* the semaphore-guarded section, so 0 <= active_tasks <= max_concurrent; on
\* every exit path of a task (return, exception, cancellation) its semaphore
\* slot is released, and a task that waits for a slot is not blocked for ever.
C40_ActiveTasksAndSlots ==
    /\ [](\A q \in 1..Len(image_queues) :
             /\ image_queues[q].active_tasks = Cardinality(InSection(q))
             /\ 0 <= image_queues[q].active_tasks
             /\ image_queues[q].active_tasks <= image_queues[q].max_concurrent
             /\ image_queues[q].permits =
                    image_queues[q].max_concurrent - Cardinality(InSection(q)))
    /\ \A t \in ImageTasks :
           (image_tasks[t].pc = "waiting") ~> (image_tasks[t].pc # "waiting")

\* a task waits for the slot that is held, after tasks of the queue have left
\* with a return, an exception and a cancellation
C40_Witness ==
    \E q \in 1..Len(image_queues) :
        /\ image_queues[q].permits = 0
        /\ \E t \in ImageTasks :
               image_tasks[t].pc = "waiting" /\ image_tasks[t].queue = q
        /\ \E t \in ImageTasks :
               image_tasks[t].pc \in {"returned", "raised", "cancelled"}
               /\ image_tasks[t].queue = q

-----------------------------------------------------------------------------
(* Properties of the crawls, checked under SpecCrawl *)

\* C17: no URL whose path is disallowed by the robots.txt of the site is
\* requested in any stage of a crawl: the link crawl over HTTP, the sitemap
\* fallback, the headless browser crawl and the managed API crawl.
C17_NoDisallowedUrlFetched ==
    \A i \in 1..Len(requests) : ~is_disallowed(requests[i].url, site_robots)

\* the positions in the request log of the requests _scrape_single_page made
\* for a URL (session.get, in the link crawl and in the sitemap fallback)
HttpRequests(url) ==
    {i \in 1..Len(requests) : requests[i].url = url
                              /\ requests[i].stage \in {"http", "sitemap"}}

\* C33: within one crawl no URL is requested more than 4 times, and a non-2xx
\* response other than 403, 429 or 503 ends the attempts on that URL at once:
\* the URL is not requested again in that crawl.
C33_AtMostFourAttemptsPerUrl ==
    [][(crawl.pc \in {"get", "batch_get"} /\ Len(requests') = Len(requests) + 1)
       => /\ crawl.current.url \notin crawl.gave_up
          /\ Cardinality(HttpRequests(crawl.current.url)) < MaxAttempts]_vars

\* a step in which _scrape_single_page makes a request (session.get)
PageRequest ==
    crawl.pc \in {"get", "batch_get"} /\ Len(requests') = Len(requests) + 1

\* the session of the crawl has made a page request before
RequestedBefore == \E i \in 1..Len(requests) : requests[i].stage \in {"http", "sitemap"}

\* C34: within one crawl session at most one page request is in flight (the
\* requests are made one after the other by the coroutine of scrape_url), and
\* between one page request and the next, a retry of the same URL included,
\* the crawler waits at least the crawl delay, which is never below 3 seconds.
C34_CrawlDelayBetweenRequests ==
    /\ crawl_delay >= 3000
    /\ [][(PageRequest /\ RequestedBefore) => crawl.slept >= crawl_delay]_vars

\* a step in which the plain HTTP fetch of the root URL returns None
RootBlockedOverHttp == crawl.root_blocked = "no" /\ crawl'.root_blocked = "http"

\* a step in which the headless browser meets, on the root URL, a protection
\* page that the challenge waits do not pass
RootBlockedInBrowser == crawl.root_blocked # "browser" /\ crawl'.root_blocked = "browser"

C36_EmptyResultOnlyAfterSitemap ==
    (crawl.pc = "returned" /\ crawl.pages = <<>>) => crawl.sitemap_tried

\* the URLs of the pages of the result, in order
PageUrls == [i \in 1..Len(crawl.pages) |-> crawl.pages[i].url]

\* C37: the page list a crawl returns has at most max_pages pages and no two
\* pages with the same URL, whichever mix of the WordPress REST/RSS shortcut,
\* the link crawl and the sitemap fallback produced it.
C37_AtMostMaxPagesNoDuplicateUrl ==
    crawl.pc = "returned" =>
        /\ Len(crawl.pages) <= MaxPages
        /\ \A i, j \in 1..Len(crawl.pages) : PageUrls[i] = PageUrls[j] => i = j

-----------------------------------------------------------------------------
(* Properties of the cache index, checked under SpecIndex *)

\* the write of worker w that completes in this step, and whether it trims
IndexWriteBy(w) == index_writer[w].pc = "append" /\ index_writer'[w].pc = "idle"
IndexWriteTrims(w) == Len(index_writer[w].cache_index) + 1 > IndexLimit

\* C21: after any sequence of cache writes, concurrent ones included, the index
\* holds at most 1000 entries, and whenever a write trims it the entries that
\* leave the index are the oldest: each entry of the stored index, and the new
\* one, that is missing afterwards is older than every entry that is kept.
C21_IndexBoundedAndOldestRemoved ==
    [][ /\ Len(kb_index') <= IndexLimit
        /\ \A w \in Workers :
            IndexWriteBy(w) /\ IndexWriteTrims(w) =>
                \A gone \in (SeqRange(kb_index) \cup {index_writes'.appended})
                                \ SeqRange(kb_index') :
                    \A kept \in SeqRange(kb_index') : gone < kept ]_vars

-----------------------------------------------------------------------------
(* Properties of the chunker, checked under SpecChunker *)

\* the tokens of a text and of the concatenation of a list of chunks
TextTokens(text) == UNION {SeqRange(Words(p, text[p])) : p \in 1..Len(text)}
ChunkTokens(chunks) == UNION {SeqRange(chunks[c]) : c \in 1..Len(chunks)}

\* C23: for any text, the chunks produced by the chunker, concatenated in
\* order, contain every token of the text: no token is dropped.
C23_ChunksContainEveryToken ==
    TextTokens(chunker.text) \subseteq ChunkTokens(chunker.chunks)

-----------------------------------------------------------------------------
(* Properties of the scheduler, checked under SpecSchedule and SpecScheduleFair *)

\* ascending next_sync_at, NULL first
AscendingNextSync(rows) ==
    \A i, j \in 1..Len(rows) : i < j => rows[i].next_sync_at <= rows[j].next_sync_at

\* C24: in each scheduler cycle the sources synced are at most 10, taken in
\* ascending next_sync_at order and synced one after another: the sources
\* sync_source was called for are the first ones of the rows selected, in
\* their order, with at most one sync in progress; and each row selected had
\* auto_sync_enabled set, a sync_status other than syncing, and a next_sync_at
\* that was null or not later than the time of the selection.
C24_CycleSyncsDueSourcesInOrder ==
    LET rows == scheduler.sources
        synced == scheduler.synced
    IN  /\ Len(synced) <= SyncLimit
        /\ Len(synced) <= Len(rows)
        /\ \A k \in 1..Len(synced) : synced[k] = rows[k].id
        /\ AscendingNextSync(rows)
        /\ \A k \in 1..Len(rows) :
              /\ rows[k].auto_sync_enabled
              /\ rows[k].sync_status # "syncing"
              /\ (rows[k].next_sync_at = None \/ rows[k].next_sync_at <= scheduler.selected_at)
        /\ \A s \in SchedSources :
              (source_rows[s].sync_status = "syncing" /\ s \in SeqRange(synced)) =>
                  (scheduler.pc \in {"syncing", "cancelled"} /\ s = synced[Len(synced)])

\* a cycle has synced ten sources in order, with more than ten sources due
\* and the rows not in the order of their ids
C24_Witness ==
    /\ scheduler.pc = "cycle"
    /\ Len(scheduler.synced) = SyncLimit
    /\ \E s \in SchedSources \ SeqRange(scheduler.synced) :
          due_for_sync(source_rows[s], scheduler.selected_at)
    /\ \E k \in 1..(SyncLimit - 1) : scheduler.synced[k] > scheduler.synced[k + 1]

\* the sync of source s raises in this step
SyncFails(s) ==
    /\ scheduler.pc = "syncing"
    /\ CurrentSource = s
    /\ s \in failing_sites
    /\ scheduler'.pc = "cycle"

\* the rows of the cycle that the for loop has not reached yet
Remaining(task) == SubSeq(task.sources, Len(task.synced) + 1, Len(task.sources))

\* source s is in error and the loop has selected it once more
SelectedAgain(s) ==
    /\ scheduler.pc = "cycle"
    /\ \E k \in 1..Len(scheduler.sources) :
          /\ scheduler.sources[k].id = s
          /\ scheduler.sources[k].sync_status = "error"

BeingSynced(s) == scheduler.pc = "syncing" /\ CurrentSource = s

\* C26: every source with auto-sync enabled whose next_sync_at has elapsed,
\* and which is not being synced already, is eventually selected and synced by
\* the scheduler, however many other sources are due or keep failing.
C26_DueSourceEventuallySynced ==
    \A s \in SchedSources :
        due_for_sync(source_rows[s], clock) ~> BeingSynced(s)

\* a sync of source s ends in this step: sync_source returns, raises, or is
\* cancelled
SyncEnds(s) ==
    /\ BeingSynced(s)
    /\ scheduler'.pc # "syncing"

\* C27: whenever a sync of a source ends, for any reason (synced, no changes,
\* exception, or cancellation at service stop), the sync_status of the source
\* is no longer syncing.
C27_EndedSyncLeavesSyncing ==
    [][\A s \in SchedSources :
          SyncEnds(s) => source_rows'[s].sync_status # "syncing"]_vars

\* C28: on service stop the sync loop task is cancelled and awaited: once
\* shutdown has completed, the task has ended, and no step starts a further
\* scheduler cycle or a further sync step, nor writes a source row.
C28_NoStepAfterShutdown ==
    [][scheduler.shutdown =>
          /\ scheduler.pc = "cancelled"
          /\ scheduler' = scheduler
          /\ source_rows' = source_rows]_vars

\* the service was stopped in the middle of a cycle, during a sync, and time
\* has passed since
C28_Witness ==
    /\ scheduler.shutdown
    /\ Len(scheduler.synced) >= 1
    /\ Remaining(scheduler) # <<>>
    /\ source_rows[CurrentSource].sync_status = "syncing"
    /\ clock > scheduler.selected_at

-----------------------------------------------------------------------------
(* Properties of the embeddings, checked under SpecEmbedder *)

\* C30: every vector stored for a chunk is the embedding computed from the
\* content of that same chunk, whatever the contents of the chunks of the
\* batch: no chunk_id is paired with the embedding of another chunk.
C30_VectorIsEmbeddingOfItsChunk ==
    \A k \in 1..Len(embedder.vectors) :
        LET v == embedder.vectors[k]
        IN  v.embedding = Embedding(embedder.chunks[v.chunk_id].content)

-----------------------------------------------------------------------------
(* Properties of the cached search over time, checked under SpecExpiry *)

\* the documents of the chunks of a response
AnswerDocs(r) == {DocumentOf(r.text_results[i].chunk_id) : i \in 1..Len(r.text_results)}

\* a step that returns a search response
SearchReturns == search_text_hit \/ search_text_miss

\* C31: after delete_document(d) has returned, no search response on the
\* knowledge base contains a chunk of document d, the responses served from
\* the semantic cache included.
C31_NoChunkOfDeletedDocument ==
    [][SearchReturns => AnswerDocs(answer') \cap deleted_docs = {}]_vars

\* C32: a cache entry is never served as a hit more than the TTL after the put
\* that wrote it, however many hits it received in between.
C32_NoHitOlderThanTtl ==
    answer.cached => answer.cache_age_seconds <= ttl

-----------------------------------------------------------------------------
(* Properties of the enhanced search, checked under SpecSearch *)

IsSortedDesc(s) == \A i \in 1..(Len(s) - 1) : s[i].score >= s[i + 1].score

\* what the threshold step of the request being answered reads and returns
GateInput == Candidates(SelectPositions(Pool, search_request.fetched, 1), search_request)
GateOutput == threshold_filter(GateInput, search_request.top_k)
Passing == {i \in 1..Len(GateInput) : GateInput[i].score >= min_relevance}
SeqIds(s) == {s[i].id : i \in 1..Len(s)}

C10_ResultsSortedByScore ==
    search_request # NoSearch => IsSortedDesc(final_results)

====
